---- MODULE Spec2Model ----
(***************************************************************************)
(* A model of the job submission and concurrency-control core of Drawbot:  *)
(*   - the task queue and its dispatcher loop        (src/main.py)         *)
(*   - the feature cogs' generate_* job builders     (src/cogs/*.py)       *)
(*   - the workflow template cache                   (src/cogs/utils.py)   *)
(*   - the submission / polling client               (src/cogs/utils.py)   *)
(* The program is single-threaded asyncio: every action below is the code  *)
(* that runs between two suspension points (awaits that really suspend).   *)
(* Each component has its own specification over the shared variables.     *)
(***************************************************************************)
EXTENDS Integers, Sequences, FiniteSets, TLC

(***************************************************************************)
(* Bounds of the model and program constants.                              *)
(***************************************************************************)
\* number of generation requests issued in one behaviour
MaxRequests == 3
\* number of process_queue loops that can exist (one per on_ready event)
MaxLoops == 3
\* game commands received, and how many of them may be suspended at once
MaxGameCommands == 8
MaxOverlap == 2
\* generations awaiting approval, and the messages one generation is split over
MaxGenerations == 2
MaxChunks == 3
\* Bot.max_concurrent_tasks
max_concurrent_tasks == 2
\* number of job-builder calls (each loads a template) in one behaviour
MaxBuilds == 3
\* size of a job's outputs in the backend's history: nodes, and images per node
MaxOutNodes == 2
MaxImages == 1

Requests == 1..MaxRequests
Loops == 1..MaxLoops

\* the features whose builders enqueue a task closure, and those that do not
QueueFeatures == {"txt2img", "img2img", "upscale", "inpaint", "depth"}
DirectFeatures == {"animate", "canvas"}
Features == QueueFeatures \cup DirectFeatures

VARIABLES
    \* ---- concurrency gate (src/main.py) and the builders' job executions
    task_queue,     \* Bot.task_queue: the entries waiting, oldest first
    running_tasks,  \* Bot.running_tasks
    loops,          \* number of process_queue loops started by on_ready
    dpc,            \* per loop: where the loop is
    dentry,         \* per loop: the entry it is executing (0: none)
    issued,         \* number of requests issued so far
    entry,          \* per request: whether its builder put a task closure in the queue
    direct,         \* per request: the builder's own execution of the job
    posts,          \* per request: POST /prompt issued by the direct call / by the gate
    arrivals,       \* history: entries in the order they were enqueued
    started,        \* history: entries in the order a loop began executing them
    completed       \* history: entries a loop executed to completion

VARIABLES
    \* ---- template cache (Cache.load_workflow) and the builders that use it
    storage,        \* per template file: what is on disk
    workflows,      \* Cache.workflows: per name, the cached parse (0: name not in the dict)
    nodeText,       \* per parse and node: the value of the node record's input
    reads,          \* per name: how many times storage was read for it
    nbuilds,        \* number of builder calls started so far
    bpc,            \* per builder call: where it is
    bname,          \* per builder call: the template it asked for
    bcopy,          \* per builder call: the parse its returned copy's node records belong to
    bsent,          \* per builder call: the graph as serialised into POST /prompt
    overlapped      \* history: a load started while another was suspended in its read

cacheVars == <<storage, workflows, nodeText, reads, nbuilds, bpc, bname, bcopy,
               bsent, overlapped>>

VARIABLES
    \* ---- fetch_comfyui_outputs(prompt_id) and the backend's history of the job
    history,        \* GET /history/{prompt_id}: NotReady, or the job's outputs
    fpc,            \* where the call is
    ftodo,          \* the image descriptors still to fetch, in listing order
    files,          \* the local list `files`
    fresult,        \* what the call returned
    ferror,         \* history: a request of this call failed (transport or HTTP status)
    fslept          \* history: the call found no outputs and slept at least once

fetchVars == <<history, fpc, ftodo, files, fresult, ferror, fslept>>

VARIABLES
    \* ---- command handlers: what the requester of a generation is told
    ncommands,      \* number of commands received so far
    hfeature,       \* the feature of the command being handled ("none": no command)
    hpc,            \* where the handling of the command is
    hcause,         \* history: what ended the generation (denied, failed, timeout, images)
    hsignal,        \* what the generate_* builder handed to the handler
    replies         \* history: [feature, cause, message] of every reply sent

reportVars == <<ncommands, hfeature, hpc, hcause, hsignal, replies>>

VARIABLES
    \* ---- resource monitor: check_vram_usage and monitor_vram_during_task
    sensor,         \* what GPUtil does when asked (see SensorStates)
    memoryUsed,     \* gpus[0].memoryUsed, in MB
    lastcheck,      \* history: the latest check_vram_usage call, what it met and returned
    mpc,            \* where monitor_vram_during_task is
    job,            \* the watched task: none, running, done, cancelled
    interrupts,     \* number of POST /api/interrupt requests sent
    mobs            \* history: what the monitor's latest observation of a running job met

monitorVars == <<sensor, memoryUsed, lastcheck, mpc, job, interrupts, mobs>>

VARIABLES
    \* ---- a job's task closure: submit_comfyui_workflow, then fetch_comfyui_outputs
    tpc,            \* where the task is
    tresponse,      \* history: what the POST /prompt met
    prompt_id,      \* what submit_comfyui_workflow returned
    tqueries,       \* number of GET /history requests the task's fetch has made
    tresult         \* what the task returned

taskVars == <<tpc, tresponse, prompt_id, tqueries, tresult>>

VARIABLES
    \* ---- request parser: parse_prompt(bot, text)
    pcalled,        \* whether parse_prompt has been called
    ptext,          \* the text it was given
    pparts,         \* history: the parts the text was composed of, when it was
    presult         \* what it returned: positive prompt, negative prompt, params

parseVars == <<pcalled, ptext, pparts, presult>>

VARIABLES
    \* ---- resolution clamp: validate_resolution(width, height)
    rcalled,        \* whether validate_resolution has been called
    rwidth,         \* the width it was given
    rheight,        \* the height it was given
    rresult         \* the pair it returned

resolutionVars == <<rcalled, rwidth, rheight, rresult>>

VARIABLES
    \* ---- job builders: the part of generate_image_* that fills the job graph
    jpc,                      \* "down" before on_ready, "ready", "built" after a builder has filled a graph
    user_model_preferences,   \* bot.user_model_preferences: user -> model key, "unset" for no entry
    preferences_file,         \* the persisted preference document
    bcall,                    \* history: the builder's arguments and the preferences it met
    bgraph                    \* the slots of the job graph it filled, or the exception it raised

builderVars == <<jpc, user_model_preferences, preferences_file, bcall, bgraph>>

VARIABLES
    \* ---- builders that stage input files: from the first upload to the return
    upc,            \* where the builder is
    ufeature,       \* which builder it is
    uploads,        \* history: what each POST /upload/image met, in order
    usubmits,       \* number of POST /prompt the builder's own call has issued
    ustats,         \* whether the stats cog is loaded
    uended,         \* history: how the wait for the outputs ended
    uresult,        \* what the builder returned or raised
    canvas_image    \* CanvasCog.canvas_image

stagingVars == <<upc, ufeature, uploads, usubmits, ustats, uended, uresult,
                 canvas_image>>

VARIABLES
    \* ---- statistics table: StatsCog.update_user_stats
    user_stats,     \* the table user_stats: per (guild id, user id), its row
    statcalls       \* history: the calls made, in order: key and increments

statsVars == <<user_stats, statcalls>>

VARIABLES
    \* ---- evolution game: GameCog
    game_active,     \* GameCog.game_active
    evolution_steps, \* GameCog.evolution_steps: which command produced each image
    current_step,    \* GameCog.current_step
    starting,        \* startgame commands awaiting their initial generation
    evolving,        \* evolve commands awaiting evolve_image
    closing,         \* evolve commands busy sending the finished chain
    gcommands,       \* number of game commands received
    gstart           \* history: how the latest initial generation ended

gameVars == <<game_active, evolution_steps, current_step, starting, evolving,
              closing, gcommands, gstart>>

VARIABLES
    \* ---- approval of a text-to-image result: handle_generation_request
    apc,            \* per generation: where its handler is
    chunks,         \* per generation: the messages its images are split over
    sent_messages,  \* per generation: the messages sent so far, in order
    posted,         \* per generation: its messages now in the channel
    reacted         \* per generation: what handle_reactions returned

approvalVars == <<apc, chunks, sent_messages, posted, reacted>>

gateVars == <<task_queue, running_tasks, loops, dpc, dentry, issued, entry,
              direct, posts, arrivals, started, completed>>

vars == <<gateVars, cacheVars, fetchVars, reportVars, monitorVars, taskVars,
          parseVars, resolutionVars,
          builderVars, stagingVars,
          statsVars, gameVars, approvalVars>>

\* what every action of the gate leaves alone
nonGateVars == <<cacheVars, fetchVars, reportVars, monitorVars, taskVars,
          parseVars, resolutionVars,
          builderVars, stagingVars,
          statsVars, gameVars, approvalVars>>
\* what every action of the template cache leaves alone
nonCacheVars == <<gateVars, fetchVars, reportVars, monitorVars, taskVars,
          parseVars, resolutionVars,
          builderVars, stagingVars,
          statsVars, gameVars, approvalVars>>
\* what every action of the polling client leaves alone
nonFetchVars == <<gateVars, cacheVars, reportVars, monitorVars, taskVars,
          parseVars, resolutionVars,
          builderVars, stagingVars,
          statsVars, gameVars, approvalVars>>
\* what every action of the command handlers leaves alone
nonReportVars == <<gateVars, cacheVars, fetchVars, monitorVars, taskVars, parseVars,
          resolutionVars,
          builderVars, stagingVars,
          statsVars, gameVars, approvalVars>>
\* what every action of the resource monitor leaves alone
nonMonitorVars == <<gateVars, cacheVars, fetchVars, reportVars, taskVars, parseVars,
          resolutionVars,
          builderVars, stagingVars,
          statsVars, gameVars, approvalVars>>
\* what every action of a job's task leaves alone
nonTaskVars == <<gateVars, cacheVars, fetchVars, reportVars, monitorVars, parseVars,
          resolutionVars,
          builderVars, stagingVars,
          statsVars, gameVars, approvalVars>>
\* what the request parser leaves alone
nonParseVars == <<gateVars, cacheVars, fetchVars, reportVars, monitorVars, taskVars,
          resolutionVars,
          builderVars, stagingVars,
          statsVars, gameVars, approvalVars>>
\* what the resolution clamp leaves alone
nonResolutionVars == <<gateVars, cacheVars, fetchVars, reportVars, monitorVars, taskVars,
          parseVars, builderVars, stagingVars,
          statsVars, gameVars, approvalVars>>
\* what the job builders' graph filling leaves alone
nonBuilderVars == <<gateVars, cacheVars, fetchVars, reportVars, monitorVars, taskVars,
          parseVars, resolutionVars, stagingVars,
          statsVars, gameVars, approvalVars>>
\* what the staging builders leave alone
nonStagingVars == <<gateVars, cacheVars, fetchVars, reportVars, monitorVars, taskVars,
          parseVars, resolutionVars, builderVars, statsVars, gameVars, approvalVars>>
\* what the statistics table's update leaves alone
nonStatsVars == <<gateVars, cacheVars, fetchVars, reportVars, monitorVars, taskVars,
          parseVars, resolutionVars, builderVars, stagingVars, gameVars, approvalVars>>
\* what the evolution game leaves alone
nonGameVars == <<gateVars, cacheVars, fetchVars, reportVars, monitorVars, taskVars,
          parseVars, resolutionVars, builderVars, stagingVars, statsVars,
          approvalVars>>
\* what the approval protocol leaves alone
nonApprovalVars == <<gateVars, cacheVars, fetchVars, reportVars, monitorVars, taskVars,
          parseVars, resolutionVars, builderVars, stagingVars, statsVars,
          gameVars>>

(***************************************************************************)
(* Concurrency gate                                                        *)
(***************************************************************************)
GateInit ==
    /\ task_queue = <<>>
    /\ running_tasks = 0
    /\ loops = 0
    /\ dpc = [d \in Loops |-> "off"]
    /\ dentry = [d \in Loops |-> 0]
    /\ issued = 0
    /\ entry = [r \in Requests |-> FALSE]
    /\ direct = [r \in Requests |-> "idle"]
    /\ posts = [r \in Requests |-> [direct |-> 0, gate |-> 0]]
    /\ arrivals = <<>>
    /\ started = <<>>
    /\ completed = {}

\* on_ready: bot.loop.create_task(bot.process_queue())
OnReady ==
    /\ loops < MaxLoops
    /\ loops' = loops + 1
    /\ dpc' = [dpc EXCEPT ![loops + 1] = "check"]
    /\ UNCHANGED <<task_queue, running_tasks, dentry, issued, entry, direct,
                   posts, arrivals, started, completed>>
    /\ UNCHANGED nonGateVars

\* the first on_ready event, which also loads the cogs
FirstReady == loops = 0 /\ OnReady

\* a generate_* builder reaches its submission point only if the template was
\* loaded, check_vram_usage admitted the request and every upload succeeded
BuilderOutcomes == {"admitted", "refused"}

\* whether the feature's builder enqueues its task closure (put_nowait) and races
\* its own call of the closure against a deadline (wait_for)
UsesQueue(f) == f \in QueueFeatures

\* generate_image_txt2img / _img2img / _upscale / _inpaint / generate_depth_map:
\*     self.bot.task_queue.put_nowait(task)
\*     images = await asyncio.wait_for(task(), timeout=API_TIMEOUT)
\* generate_image_animate / update_canvas submit and poll with no queue entry.
Request(f, outcome) ==
    /\ loops >= 1
    /\ issued < MaxRequests
    /\ LET r == issued + 1 IN
        /\ issued' = r
        /\ entry' = [entry EXCEPT ![r] = outcome = "admitted" /\ UsesQueue(f)]
        /\ IF outcome = "refused"
              THEN /\ direct' = [direct EXCEPT ![r] = "absent"]
                   /\ UNCHANGED <<task_queue, arrivals>>
              ELSE /\ direct' = [direct EXCEPT ![r] = "submit"]
                   /\ IF UsesQueue(f)
                         THEN /\ task_queue' = Append(task_queue, r)
                              /\ arrivals' = Append(arrivals, r)
                         ELSE UNCHANGED <<task_queue, arrivals>>
    /\ UNCHANGED <<running_tasks, loops, dpc, dentry, posts, started, completed>>
    /\ UNCHANGED nonGateVars

\* the builder's own call of the job: prompt_id = await submit_comfyui_workflow(workflow)
DirectSubmit(r, accepted) ==
    /\ direct[r] = "submit"
    /\ posts' = [posts EXCEPT ![r].direct = @ + 1]
    /\ direct' = [direct EXCEPT ![r] = IF accepted THEN "poll" ELSE "absent"]
    /\ UNCHANGED <<task_queue, running_tasks, loops, dpc, dentry, issued, entry,
                   arrivals, started, completed>>
    /\ UNCHANGED nonGateVars

\* the builder's own call of the job: fetch_comfyui_outputs(prompt_id) returns
DirectFinish(r, result) ==
    /\ direct[r] = "poll"
    /\ direct' = [direct EXCEPT ![r] = result]
    /\ UNCHANGED <<task_queue, running_tasks, loops, dpc, dentry, issued, entry,
                   posts, arrivals, started, completed>>
    /\ UNCHANGED nonGateVars

\* asyncio.wait_for(task(), timeout=API_TIMEOUT) expires: the direct call is cancelled
DirectTimeout(r) ==
    /\ entry[r]
    /\ direct[r] \in {"submit", "poll"}
    /\ direct' = [direct EXCEPT ![r] = "timeout"]
    /\ UNCHANGED <<task_queue, running_tasks, loops, dpc, dentry, issued, entry,
                   posts, arrivals, started, completed>>
    /\ UNCHANGED nonGateVars

\* the guard with its comparison inverted
CanDispatchInverted(rt) == rt >= max_concurrent_tasks

\* if self.running_tasks < self.max_concurrent_tasks:
CanDispatch(rt) == rt < max_concurrent_tasks

\* a queue that hands out the newest entry (a LifoQueue)
QueueGetNewest(q) == q[Len(q)]

\* task = await self.task_queue.get(): asyncio.Queue hands out the oldest entry
QueueGet(q) == Head(q)

QueueRest(q, e) == SelectSeq(q, LAMBDA x : x # e)

\* self.running_tasks += 1
Increment(rt) == rt + 1

\* the decrement left out of the exit path
FinallySkipped(rt) == rt

\* finally: self.running_tasks -= 1
Finally(rt) == rt - 1

\* the loop takes an entry and starts executing it: get(), += 1, await task()
Take(d) ==
    LET e == QueueGet(task_queue) IN
    /\ task_queue' = QueueRest(task_queue, e)
    /\ running_tasks' = Increment(running_tasks)
    /\ dentry' = [dentry EXCEPT ![d] = e]
    /\ dpc' = [dpc EXCEPT ![d] = "submit"]
    /\ started' = Append(started, e)

\* one turn of `while True`: the guard, and get() when an entry is waiting
DispCheck(d) ==
    /\ dpc[d] = "check"
    /\ IF CanDispatch(running_tasks)
          THEN IF task_queue # <<>>
                  THEN Take(d)
                  ELSE /\ dpc' = [dpc EXCEPT ![d] = "get"]
                       /\ UNCHANGED <<task_queue, running_tasks, dentry, started>>
          ELSE /\ dpc' = [dpc EXCEPT ![d] = "sleep"]
               /\ UNCHANGED <<task_queue, running_tasks, dentry, started>>
    /\ UNCHANGED <<loops, issued, entry, direct, posts, arrivals, completed>>
    /\ UNCHANGED nonGateVars

\* get() was blocked on the empty queue and an entry has arrived
DispWake(d) ==
    /\ dpc[d] = "get"
    /\ task_queue # <<>>
    /\ Take(d)
    /\ UNCHANGED <<loops, issued, entry, direct, posts, arrivals, completed>>
    /\ UNCHANGED nonGateVars

\* the entry leaves the loop's hands: finally, task_done()
Leave(d, next) ==
    /\ running_tasks' = Finally(running_tasks)
    /\ completed' = completed \cup {dentry[d]}
    /\ dentry' = [dentry EXCEPT ![d] = 0]
    /\ dpc' = [dpc EXCEPT ![d] = next]

\* await task(), first half: the entry POSTs the job graph
DispSubmit(d, accepted) ==
    /\ dpc[d] = "submit"
    /\ posts' = [posts EXCEPT ![dentry[d]].gate = @ + 1]
    /\ IF accepted
          THEN /\ dpc' = [dpc EXCEPT ![d] = "poll"]
               /\ UNCHANGED <<running_tasks, dentry, completed>>
          ELSE Leave(d, "sleep")
    /\ UNCHANGED <<task_queue, loops, issued, entry, direct, arrivals, started>>
    /\ UNCHANGED nonGateVars

\* await task(), second half: the entry's fetch_comfyui_outputs returns
DispFinish(d) ==
    /\ dpc[d] = "poll"
    /\ Leave(d, "sleep")
    /\ UNCHANGED <<task_queue, loops, issued, entry, direct, posts, arrivals,
                   started>>
    /\ UNCHANGED nonGateVars

\* await task() raises.  The task closures catch Exception themselves, so what
\* comes out of them is a BaseException, such as the CancelledError of a
\* cancellation that reaches the loop while it awaits the entry.  The loop has no
\* except clause: finally runs, then the exception leaves process_queue and the
\* loop is over
EntryRaises(d) ==
    /\ dpc[d] \in {"submit", "poll"}
    /\ Leave(d, "dead")
    /\ UNCHANGED <<task_queue, loops, issued, entry, direct, posts, arrivals,
                   started>>
    /\ UNCHANGED nonGateVars

\* await asyncio.sleep(0.1)
DispSleep(d) ==
    /\ dpc[d] = "sleep"
    /\ dpc' = [dpc EXCEPT ![d] = "check"]
    /\ UNCHANGED <<task_queue, running_tasks, loops, dentry, issued, entry,
                   direct, posts, arrivals, started, completed>>
    /\ UNCHANGED nonGateVars

DispatcherStep ==
    \/ FirstReady
    \/ \E d \in Loops : DispCheck(d)
    \/ \E d \in Loops : DispWake(d)
    \/ \E d \in Loops : \E accepted \in BOOLEAN : DispSubmit(d, accepted)
    \/ \E d \in Loops : DispFinish(d)
    \/ \E d \in Loops : DispSleep(d)

RequestStep ==
    \/ \E f \in Features : \E outcome \in BuilderOutcomes : Request(f, outcome)
    \/ \E r \in Requests : \E accepted \in BOOLEAN : DirectSubmit(r, accepted)
    \/ \E r \in Requests : \E result \in {"images", "absent"} : DirectFinish(r, result)
    \/ \E r \in Requests : DirectTimeout(r)

GateNext ==
    \/ FirstReady
    \/ \E d \in Loops : DispCheck(d)
    \/ \E d \in Loops : DispWake(d)
    \/ \E d \in Loops : \E accepted \in BOOLEAN : DispSubmit(d, accepted)
    \/ \E d \in Loops : DispFinish(d)
    \/ \E d \in Loops : EntryRaises(d)
    \/ \E d \in Loops : DispSleep(d)
    \/ \E f \in Features : \E outcome \in BuilderOutcomes : Request(f, outcome)
    \/ \E r \in Requests : \E accepted \in BOOLEAN : DirectSubmit(r, accepted)
    \/ \E r \in Requests : \E result \in {"images", "absent"} : DirectFinish(r, result)
    \/ \E r \in Requests : DirectTimeout(r)

(***************************************************************************)
(* Template cache                                                          *)
(***************************************************************************)
Builds == 1..MaxBuilds

\* template files under WORKFLOWS_PATH
Templates == {"txt2img_workflow.yaml", "txt2img_hr_workflow.yaml"}

\* what aiofiles.open / yaml.safe_load can find for a name
FileStates == {"valid", "empty", "malformed", "missing"}

\* the node records of a template whose inputs the builders write
Nodes == {6, 7}

\* the value of an input as it was parsed from the file
AsLoaded == 0

CacheInit ==
    /\ storage \in [Templates -> FileStates]
    /\ workflows = [t \in Templates |-> 0]
    /\ nodeText = [p \in Builds |-> [n \in Nodes |-> AsLoaded]]
    /\ reads = [t \in Templates |-> 0]
    /\ nbuilds = 0
    /\ bpc = [h \in Builds |-> "idle"]
    /\ bname = [h \in Builds |-> "none"]
    /\ bcopy = [h \in Builds |-> 0]
    /\ bsent = [h \in Builds |-> <<>>]
    /\ overlapped = FALSE

\* the cache while another component is examined: every template file is valid
CacheIdle ==
    /\ CacheInit
    /\ storage = [t \in Templates |-> "valid"]

\* return Cache.workflows.get(name, {}).copy(): dict.copy() makes a new top-level
\* dict whose values are the same node records, so the copy of parse p is a view
\* of p's node records
CopyOf(p) == p

\* the builder fills the slots of its copy: workflow[6]["inputs"]["text"] = ...
\* writes the node record the copy refers to
Fill(text, p, h) == [text EXCEPT ![p] = [n \in Nodes |-> h]]

\* a generate_* builder calls Cache.load_workflow(name).  A cached name is copied
\* and filled without suspending; otherwise the call suspends in aiofiles.open
BuildStart(name) ==
    /\ nbuilds < MaxBuilds
    /\ LET h == nbuilds + 1 IN
        /\ nbuilds' = h
        /\ bname' = [bname EXCEPT ![h] = name]
        /\ IF workflows[name] # 0
              THEN /\ bcopy' = [bcopy EXCEPT ![h] = CopyOf(workflows[name])]
                   /\ nodeText' = Fill(nodeText, CopyOf(workflows[name]), h)
                   /\ bpc' = [bpc EXCEPT ![h] = "filled"]
                   /\ UNCHANGED <<reads, overlapped>>
              ELSE /\ reads' = [reads EXCEPT ![name] = @ + 1]
                   /\ bpc' = [bpc EXCEPT ![h] = "reading"]
                   /\ overlapped' = (overlapped \/ \E g \in Builds : bpc[g] = "reading")
                   /\ UNCHANGED <<bcopy, nodeText>>
    /\ UNCHANGED <<storage, workflows, bsent>>
    /\ UNCHANGED nonCacheVars

\* the read completes and load_workflow goes on to its end, then the builder to
\* its next suspension point:
\*   missing file: aiofiles.open raises FileNotFoundError, which nothing catches
\*   malformed file: yaml.safe_load (or int(key)) raises, which nothing catches
\*   empty file: logged, nothing cached, {} returned, the builder returns (None, None)
\*   valid file: Cache.workflows[name] = workflow_data, a copy is returned and filled
LoadReturn(h) ==
    /\ bpc[h] = "reading"
    /\ LET name == bname[h] IN
       CASE storage[name] \in {"missing", "malformed"} ->
              /\ bpc' = [bpc EXCEPT ![h] = "raised"]
              /\ UNCHANGED <<workflows, nodeText, bcopy>>
         [] storage[name] = "empty" ->
              /\ bpc' = [bpc EXCEPT ![h] = "absent"]
              /\ UNCHANGED <<workflows, nodeText, bcopy>>
         [] storage[name] = "valid" ->
              /\ workflows' = [workflows EXCEPT ![name] = h]
              /\ bcopy' = [bcopy EXCEPT ![h] = CopyOf(h)]
              /\ nodeText' = Fill(nodeText, CopyOf(h), h)
              /\ bpc' = [bpc EXCEPT ![h] = "filled"]
    /\ UNCHANGED <<storage, reads, nbuilds, bname, bsent, overlapped>>
    /\ UNCHANGED nonCacheVars

\* submit_comfyui_workflow(workflow): session.post(..., json={"prompt": workflow})
\* serialises the graph as the node records are at that moment
BuildSubmit(h) ==
    /\ bpc[h] = "filled"
    /\ bsent' = [bsent EXCEPT ![h] = nodeText[bcopy[h]]]
    /\ bpc' = [bpc EXCEPT ![h] = "submitted"]
    /\ UNCHANGED <<storage, workflows, nodeText, reads, nbuilds, bname, bcopy,
                   overlapped>>
    /\ UNCHANGED nonCacheVars

CacheNext ==
    \/ \E name \in Templates : BuildStart(name)
    \/ \E h \in Builds : LoadReturn(h)
    \/ \E h \in Builds : BuildSubmit(h)

(***************************************************************************)
(* Submission / polling client: fetch_comfyui_outputs                      *)
(***************************************************************************)
\* a history response: without outputs for the job id yet, or with them
NotReady == [ready |-> FALSE, outputs |-> <<>>]
Ready(outs) == [ready |-> TRUE, outputs |-> outs]

\* what the call hands back: nothing yet, the absent result (None), or a list
Pending == [kind |-> "pending", images |-> <<>>]
Absent == [kind |-> "None", images |-> <<>>]
ImageList(l) == [kind |-> "list", images |-> l]

Filenames == {"a.png", "b.png"}

\* the bytes GET /view?filename=<f>&type=output serves
Content(f) == [bytes_of |-> f]

\* sequences over S of length at most n
RECURSIVE SeqsUpTo(_, _)
SeqsUpTo(S, n) ==
    IF n = 0 THEN {<<>>}
    ELSE LET shorter == SeqsUpTo(S, n - 1) IN
         shorter \cup {Append(q, x) : q \in shorter, x \in S}

\* one node's entry in "outputs": with an "images" list, or without one
NodeOutputs ==
    {[has_images |-> TRUE, images |-> q] : q \in SeqsUpTo(Filenames, MaxImages)}
      \cup {[has_images |-> FALSE, images |-> <<>>]}

\* the "outputs" mapping of a finished job, in the order the response lists it
JobOutputs == SeqsUpTo(NodeOutputs, MaxOutNodes)

FetchIdle ==
    /\ history = NotReady
    /\ fpc = "idle"
    /\ ftodo = <<>>
    /\ files = <<>>
    /\ fresult = Pending
    /\ ferror = FALSE
    /\ fslept = FALSE

\* a test that takes any history response as carrying outputs
HasOutputsAlways(h) == TRUE

\* if prompt_id in history and "outputs" in history[prompt_id]:
HasOutputs(h) == h.ready

\* for node_id, data in outputs.items(): if "images" in data:
\*     for img_info in data["images"]: ... img_info['filename']
RECURSIVE Flatten(_)
Flatten(outs) ==
    IF outs = <<>> THEN <<>>
    ELSE (IF Head(outs).has_images THEN Head(outs).images ELSE <<>>)
            \o Flatten(Tail(outs))

\* the descriptors a history response lists (none while the job is not in it)
Listed(h) == IF h.ready THEN Flatten(h.outputs) ELSE <<>>

\* an except clause that hands back what was fetched so far
ReturnPartial(fetched) == ImageList(fetched)

\* except Exception as e: logger.error(...); return None
OnError(fetched) == Absent

\* the job finishes on the backend and its outputs enter the history
BackendComplete(outs) ==
    /\ history = NotReady
    /\ history' = Ready(outs)
    /\ UNCHANGED <<fpc, ftodo, files, fresult, ferror, fslept>>
    /\ UNCHANGED nonFetchVars

\* a task closure calls fetch_comfyui_outputs(prompt_id)
FetchCall ==
    /\ fpc = "idle"
    /\ fpc' = "query"
    /\ UNCHANGED <<history, ftodo, files, fresult, ferror, fslept>>
    /\ UNCHANGED nonFetchVars

\* session.get(.../history/{prompt_id}), raise_for_status, json; with outputs in
\* the response the call starts on the listed images (and returns [] at once
\* when none is listed), without them it goes to sleep
HistoryQuery(ok) ==
    /\ fpc = "query"
    /\ IF ~ok
          THEN /\ ferror' = TRUE
               /\ fresult' = OnError(files)
               /\ fpc' = "returned"
               /\ UNCHANGED <<ftodo, files>>
          ELSE IF HasOutputs(history)
                  THEN /\ ftodo' = Listed(history)
                       /\ files' = <<>>
                       /\ fpc' = IF Listed(history) = <<>> THEN "returned" ELSE "view"
                       /\ fresult' = IF Listed(history) = <<>> THEN ImageList(<<>>) ELSE fresult
                       /\ UNCHANGED ferror
                  ELSE /\ fpc' = "sleep"
                       /\ UNCHANGED <<ftodo, files, fresult, ferror>>
    /\ UNCHANGED <<history, fslept>>
    /\ UNCHANGED nonFetchVars

\* await asyncio.sleep(1), then the next turn of `while True`
PollSleep ==
    /\ fpc = "sleep"
    /\ fpc' = "query"
    /\ fslept' = TRUE
    /\ UNCHANGED <<history, ftodo, files, fresult, ferror>>
    /\ UNCHANGED nonFetchVars

\* session.get(.../view?filename=...), raise_for_status, files.append(BytesIO(...));
\* after the last listed image: return files
ViewFile(ok) ==
    /\ fpc = "view"
    /\ IF ok
          THEN LET fetched == Append(files, Content(Head(ftodo))) IN
               /\ files' = fetched
               /\ ftodo' = Tail(ftodo)
               /\ fpc' = IF Tail(ftodo) = <<>> THEN "returned" ELSE "view"
               /\ fresult' = IF Tail(ftodo) = <<>> THEN ImageList(fetched) ELSE fresult
               /\ UNCHANGED ferror
          ELSE /\ ferror' = TRUE
               /\ fresult' = OnError(files)
               /\ fpc' = "returned"
               /\ UNCHANGED <<ftodo, files>>
    /\ UNCHANGED <<history, fslept>>
    /\ UNCHANGED nonFetchVars

FetchStep ==
    \/ FetchCall
    \/ \E ok \in BOOLEAN : HistoryQuery(ok)
    \/ PollSleep
    \/ \E ok \in BOOLEAN : ViewFile(ok)

FetchNext ==
    \/ \E outs \in JobOutputs : BackendComplete(outs)
    \/ FetchCall
    \/ \E ok \in BOOLEAN : HistoryQuery(ok)
    \/ PollSleep
    \/ \E ok \in BOOLEAN : ViewFile(ok)

(***************************************************************************)
(* Command handlers: the outcome reported to the requester                 *)
(***************************************************************************)
\* number of commands handled in one behaviour
MaxCommands == 2

\* handle_generation_request (txt2img, img2img) calls check_vram_usage itself
\* before it calls the builder; the other commands go straight to the builder
HandlerChecks == {"txt2img", "img2img"}

\* await channel.send("GPU VRAM usage too high. Try again later.")
TryAgainLater == "GPU VRAM usage too high. Try again later."

\* the else branch of `if images:` in each command handler
FailureMessage(f) ==
    CASE f \in {"txt2img", "img2img"} -> "Failed to generate image or timed out."
      [] f = "upscale" -> "Failed to upscale image."
      [] f = "inpaint" -> "Failed to inpaint image."
      [] f = "depth" -> "Failed to generate depth map."
      [] f = "animate" -> "Failed to generate frame."
      [] f = "canvas" -> "Failed to update canvas."

\* what the handler sends when asyncio.TimeoutError comes out of the builder:
\* txt2img/img2img have `except asyncio.TimeoutError`, upscale/inpaint catch it
\* with `except Exception as e` and send f"Error: {str(e)}", str(e) being empty
TimeoutMessage(f) ==
    IF f \in {"txt2img", "img2img"}
        THEN "Generation took too long. Try again later."
        ELSE "Error: "

\* what comes out of the builder when wait_for expires: TimeoutError propagates,
\* except in generate_depth_map, whose `except Exception` returns (None, None)
TimeoutSignal(f) == IF f = "depth" THEN "absent" ELSE "TimeoutError"

\* the handler's reply to what the builder handed it
Reply(f, signal) ==
    CASE signal = "images" -> "images"
      [] signal = "absent" -> FailureMessage(f)
      [] signal = "TimeoutError" -> TimeoutMessage(f)

ReportIdle ==
    /\ ncommands = 0
    /\ hfeature = "none"
    /\ hpc = "idle"
    /\ hcause = "none"
    /\ hsignal = "none"
    /\ replies = {}

\* a command (or a message that starts a generation) arrives
Command(f) ==
    /\ hpc = "idle"
    /\ ncommands < MaxCommands
    /\ ncommands' = ncommands + 1
    /\ hfeature' = f
    /\ hpc' = "handler"
    /\ hcause' = "none"
    /\ hsignal' = "none"
    /\ UNCHANGED replies
    /\ UNCHANGED nonReportVars

\* handle_generation_request: if not check_vram_usage(): send(...); return
HandlerAdmission(admitted) ==
    /\ hpc = "handler"
    /\ IF hfeature \in HandlerChecks /\ ~admitted
          THEN /\ replies' = replies \cup
                     {[feature |-> hfeature, cause |-> "denied", message |-> TryAgainLater]}
               /\ hcause' = "denied"
               /\ hpc' = "idle"
          ELSE /\ hpc' = "builder"
               /\ UNCHANGED <<replies, hcause>>
    /\ UNCHANGED <<ncommands, hfeature, hsignal>>
    /\ UNCHANGED nonReportVars

\* generate_*: if not check_vram_usage(): return None, None
BuilderAdmission(admitted) ==
    /\ hpc = "builder"
    /\ IF admitted
          THEN /\ hpc' = "running"
               /\ UNCHANGED <<hcause, hsignal>>
          ELSE /\ hcause' = "denied"
               /\ hsignal' = "absent"
               /\ hpc' = "report"
    /\ UNCHANGED <<ncommands, hfeature, replies>>
    /\ UNCHANGED nonReportVars

\* the job ends: images came back, submission or fetching failed (the task
\* returns None), or the deadline of wait_for expired
JobEnds(outcome) ==
    /\ hpc = "running"
    /\ outcome = "timeout" => UsesQueue(hfeature)
    /\ hcause' = outcome
    /\ hsignal' = CASE outcome = "images" -> "images"
                    [] outcome = "failed" -> "absent"
                    [] outcome = "timeout" -> TimeoutSignal(hfeature)
    /\ hpc' = "report"
    /\ UNCHANGED <<ncommands, hfeature, replies>>
    /\ UNCHANGED nonReportVars

\* the handler tells the requester
Report ==
    /\ hpc = "report"
    /\ replies' = replies \cup
          {[feature |-> hfeature, cause |-> hcause, message |-> Reply(hfeature, hsignal)]}
    /\ hpc' = "idle"
    /\ UNCHANGED <<ncommands, hfeature, hcause, hsignal>>
    /\ UNCHANGED nonReportVars

ReportNext ==
    \/ \E f \in Features : Command(f)
    \/ \E admitted \in BOOLEAN : HandlerAdmission(admitted)
    \/ \E admitted \in BOOLEAN : BuilderAdmission(admitted)
    \/ \E outcome \in {"images", "failed", "timeout"} : JobEnds(outcome)
    \/ Report

(***************************************************************************)
(* Resource monitor: check_vram_usage, monitor_vram_during_task            *)
(***************************************************************************)
\* VRAM_THRESHOLD_GB = float(os.getenv("VRAM_THRESHOLD_GB", 20))
VRAM_THRESHOLD_GB == 20

\* gpu.memoryUsed is in MB: vram_used_gb = gpu.memoryUsed / 1024
MBPerGB == 1024

\* how far around the threshold (in MB) the readings of the model go
MaxDelta == 1

\* what the query can meet: a GPU with a reading, an empty GPU list, GPUtil not
\* importable, or an exception out of GPUtil.getGPUs()
SensorStates == {"ok", "no_gpus", "ImportError", "Exception"}

Readings == {0} \cup {VRAM_THRESHOLD_GB * MBPerGB + d : d \in (0 - MaxDelta)..MaxDelta}

\* an error branch that refuses admission
FailClosed(e) == FALSE

\* except ImportError: return True / except Exception as e: return True
OnQueryError(e) == TRUE

\* if not gpus: return True
OnNoGpus == TRUE

\* vram_used_gb = gpu.memoryUsed / 1024, as whole GB and the MB left over
VramUsedGb(used) == [whole |-> used \div MBPerGB, rest |-> used % MBPerGB]

\* return vram_used_gb <= VRAM_THRESHOLD_GB
AtOrBelow(gb, threshold) == gb.whole < threshold \/ (gb.whole = threshold /\ gb.rest = 0)

check_vram_usage(s, used) ==
    CASE s = "ok" -> AtOrBelow(VramUsedGb(used), VRAM_THRESHOLD_GB)
      [] s = "no_gpus" -> OnNoGpus
      [] s \in {"ImportError", "Exception"} -> OnQueryError(s)

NoCheck == [called |-> FALSE, sensor |-> "ok", used |-> 0, result |-> TRUE]

MonitorIdle ==
    /\ sensor = "ok"
    /\ memoryUsed = 0
    /\ lastcheck = NoCheck
    /\ mpc = "off"
    /\ job = "none"
    /\ interrupts = 0
    /\ mobs = "none"

\* the GPU's state changes under the bot
SensorChange(s, used) ==
    /\ <<s, used>> # <<sensor, memoryUsed>>
    /\ sensor' = s
    /\ memoryUsed' = used
    /\ UNCHANGED <<lastcheck, mpc, job, interrupts, mobs>>
    /\ UNCHANGED nonMonitorVars

Checked == [called |-> TRUE, sensor |-> sensor, used |-> memoryUsed,
            result |-> check_vram_usage(sensor, memoryUsed)]

\* a handler or a builder asks for admission: if not check_vram_usage(): ...
AdmissionCheck ==
    /\ lastcheck' = Checked
    /\ lastcheck' # lastcheck
    /\ UNCHANGED <<sensor, memoryUsed, mpc, job, interrupts, mobs>>
    /\ UNCHANGED nonMonitorVars

\* update_canvas: request_task = create_task(fetch_comfyui_outputs(prompt_id));
\*                monitor_task = create_task(monitor_vram_during_task(request_task))
WatchStart ==
    /\ mpc = "off"
    /\ mpc' = "check"
    /\ job' = "running"
    /\ UNCHANGED <<sensor, memoryUsed, lastcheck, interrupts, mobs>>
    /\ UNCHANGED nonMonitorVars

\* the watched task returns (with images or with None)
JobDone ==
    /\ job = "running"
    /\ job' = "done"
    /\ UNCHANGED <<sensor, memoryUsed, lastcheck, mpc, interrupts, mobs>>
    /\ UNCHANGED nonMonitorVars

\* a monitor that cancels when the check admits
CancelWhenAdmitted(admitted) == admitted

\* if not check_vram_usage(): task.cancel()
CancelWhen(admitted) == ~admitted

\* what an observation met, in the terms of the threshold
Observation(s, used) ==
    IF s # "ok" THEN "unmeasured"
    ELSE IF used > VRAM_THRESHOLD_GB * MBPerGB THEN "above" ELSE "within"

\* one turn of `while not task.done()`: the loop test, the check, task.cancel()
MonitorCheck ==
    /\ mpc = "check"
    /\ IF job # "running"
          THEN /\ mpc' = "stopped"
               /\ UNCHANGED <<job, lastcheck, mobs>>
          ELSE /\ lastcheck' = Checked
               /\ mobs' = Observation(sensor, memoryUsed)
               /\ IF CancelWhen(check_vram_usage(sensor, memoryUsed))
                     THEN /\ job' = "cancelled"
                          /\ mpc' = "interrupt"
                     ELSE /\ mpc' = "sleep"
                          /\ UNCHANGED job
    /\ UNCHANGED <<sensor, memoryUsed, interrupts>>
    /\ UNCHANGED nonMonitorVars

\* await interrupt_api_generation(); break -- the POST may fail, which is
\* logged and swallowed
MonitorInterrupt(ok) ==
    /\ mpc = "interrupt"
    /\ interrupts' = interrupts + 1
    /\ mpc' = "stopped"
    /\ UNCHANGED <<sensor, memoryUsed, lastcheck, job, mobs>>
    /\ UNCHANGED nonMonitorVars

\* await asyncio.sleep(interval)
MonitorSleep ==
    /\ mpc = "sleep"
    /\ mpc' = "check"
    /\ UNCHANGED <<sensor, memoryUsed, lastcheck, job, interrupts, mobs>>
    /\ UNCHANGED nonMonitorVars

MonitorStep ==
    \/ MonitorCheck
    \/ \E ok \in BOOLEAN : MonitorInterrupt(ok)
    \/ MonitorSleep

MonitorNext ==
    \/ \E s \in SensorStates : \E used \in Readings : SensorChange(s, used)
    \/ AdmissionCheck
    \/ WatchStart
    \/ JobDone
    \/ MonitorCheck
    \/ \E ok \in BOOLEAN : MonitorInterrupt(ok)
    \/ MonitorSleep

(***************************************************************************)
(* A job's task closure: submit_comfyui_workflow, then the polling         *)
(***************************************************************************)
\* number of GET /history requests one fetch makes in the model
MaxQueries == 4

\* status codes POST /prompt can answer with (redirects without a Location
\* header are handed to the caller as they are)
Statuses == {200, 201, 204, 300, 304, 400, 404, 500, 503}

\* what the body of the response holds
Bodies == {"prompt_id", "no_prompt_id", "not_json"}

\* what session.post raises when no response arrives
TransportErrors == {"ClientConnectionError", "TimeoutError"}

Responses ==
    {[kind |-> "response", status |-> st, body |-> b, error |-> "none"] :
        st \in Statuses, b \in Bodies}
      \cup {[kind |-> "error", status |-> 0, body |-> "none", error |-> e] :
              e \in TransportErrors}

NoResponse == [kind |-> "none", status |-> 0, body |-> "none", error |-> "none"]

\* aiohttp's ClientResponse.ok: the status is below 400
ResponseOk(status) == status < 400

Returned(v) == [raised |-> FALSE, value |-> v]
Raised(e) == [raised |-> TRUE, value |-> e]

\* the try block: session.post raises on a transport error; `if not response.ok:
\* raise aiohttp.ClientError(...)`; response.json() raises on a body that is not
\* JSON; .get("prompt_id") is None when the body has no such key
SubmitTry(resp) ==
    IF resp.kind = "error" THEN Raised(resp.error)
    ELSE IF ~ResponseOk(resp.status) THEN Raised("ClientError")
    ELSE CASE resp.body = "not_json" -> Raised("ContentTypeError")
           [] resp.body = "no_prompt_id" -> Returned("None")
           [] resp.body = "prompt_id" -> Returned("id")

\* an except clause that lets the error out
SubmitReraise(e) == Raised(e)

\* except Exception as e: logger.error(...); return None
SubmitExcept(e) == Returned("None")

submit_comfyui_workflow(resp) ==
    LET t == SubmitTry(resp) IN
    IF t.raised THEN SubmitExcept(t.value) ELSE t

TaskIdle ==
    /\ tpc = "idle"
    /\ tresponse = NoResponse
    /\ prompt_id = "none"
    /\ tqueries = 0
    /\ tresult = "pending"

\* a builder or the dispatcher calls task()
TaskCall ==
    /\ tpc = "idle"
    /\ tpc' = "post"
    /\ UNCHANGED <<tresponse, prompt_id, tqueries, tresult>>
    /\ UNCHANGED nonTaskVars

\* prompt_id = await submit_comfyui_workflow(workflow)
\* if not prompt_id: return None
TaskSubmit(resp) ==
    /\ tpc = "post"
    /\ tresponse' = resp
    /\ LET r == submit_comfyui_workflow(resp) IN
       IF r.raised
          THEN /\ tpc' = "raised"
               /\ UNCHANGED <<prompt_id, tresult>>
          ELSE /\ prompt_id' = r.value
               /\ IF r.value = "None"
                     THEN /\ tresult' = "None"
                          /\ tpc' = "returned"
                     ELSE /\ tpc' = "fetch"
                          /\ UNCHANGED tresult
    /\ UNCHANGED tqueries
    /\ UNCHANGED nonTaskVars

\* fetch_comfyui_outputs(prompt_id): one more GET /history/{prompt_id}
TaskQuery ==
    /\ tpc = "fetch"
    /\ tqueries < MaxQueries
    /\ tqueries' = tqueries + 1
    /\ UNCHANGED <<tpc, tresponse, prompt_id, tresult>>
    /\ UNCHANGED nonTaskVars

\* what fetch_comfyui_outputs can hand back: None, or a list (possibly empty)
FetchResults == {"None", "empty list", "images"}

\* outputs = await fetch_comfyui_outputs(prompt_id); return outputs
TaskFetched(result) ==
    /\ tpc = "fetch"
    /\ tqueries >= 1
    /\ tresult' = result
    /\ tpc' = "returned"
    /\ UNCHANGED <<tresponse, prompt_id, tqueries>>
    /\ UNCHANGED nonTaskVars

TaskNext ==
    \/ TaskCall
    \/ \E resp \in Responses : TaskSubmit(resp)
    \/ TaskQuery
    \/ \E result \in FetchResults : TaskFetched(result)

(***************************************************************************)
(* Request parser: parse_prompt                                            *)
(* A text is a sequence of symbols.  "x" is a letter; "hr", "HR", "no" and *)
(* "neg" stand for those letters in a row, so that the key noneg is        *)
(* <<"no", "neg">> and contains the marker neg; " ", "," and ":" are       *)
(* themselves.                                                             *)
(***************************************************************************)
\* longest text given to the parser as it is
MaxLen == 4
\* longest prompt P of a composed text "P k:v, neg:N"
MaxPrompt == 3
\* longest value v and negative text N of a composed text
MaxPart == 2

\* \w
WordSymbols == {"x", "hr", "HR", "no", "neg"}

Symbols == WordSymbols \cup {" ", ",", ":"}

\* \s
IsSpace(c) == c = " "

\* \w
IsWord(c) == c \in WordSymbols

\* [^:,\s]
IsValueChar(c) == c \notin {":", ",", " "}

\* str.lower(), and what re.IGNORECASE compares
Lower(c) == IF c = "HR" THEN "hr" ELSE c

LowerSeq(t) == [i \in 1..Len(t) |-> Lower(t[i])]

\* set(get_settable_parameters().keys()): of the thirteen keys, hr and noneg
Vocabulary == {<<"hr">>, <<"no", "neg">>}

RECURSIVE LStrip(_)
LStrip(t) == IF t # <<>> /\ IsSpace(Head(t)) THEN LStrip(Tail(t)) ELSE t

RECURSIVE RStrip(_)
RStrip(t) ==
    IF t # <<>> /\ IsSpace(t[Len(t)]) THEN RStrip(SubSeq(t, 1, Len(t) - 1)) ELSE t

\* str.strip()
Strip(t) == RStrip(LStrip(t))

\* the literal lit is in t at position p
StartsWith(t, p, lit) ==
    /\ p + Len(lit) - 1 <= Len(t)
    /\ SubSeq(t, p, p + Len(lit) - 1) = lit

\* (steps|cfg|...): with re.IGNORECASE: the length of the key that is at p and is
\* followed by a colon (0: none)
KeyLenAt(t, p) ==
    LET at == {k \in Vocabulary :
                 /\ p + Len(k) <= Len(t)
                 /\ LowerSeq(SubSeq(t, p, p + Len(k) - 1)) = k
                 /\ t[p + Len(k)] = ":"}
    IN IF at = {} THEN 0 ELSE Len(CHOOSE k \in at : TRUE)

\* the first position from p on that holds no whitespace (Len(t) + 1: none)
RECURSIVE SkipSpaces(_, _)
SkipSpaces(t, p) ==
    IF p <= Len(t) /\ IsSpace(t[p]) THEN SkipSpaces(t, p + 1) ELSE p

\* the first position from p on that holds no word character
RECURSIVE WordEnd(_, _)
WordEnd(t, p) ==
    IF p <= Len(t) /\ IsWord(t[p]) THEN WordEnd(t, p + 1) ELSE p

\* (?=\s*(?:,|\s+\w+:|$)) at position e
LookaheadOk(t, e) ==
    LET j == SkipSpaces(t, e) IN
    \/ j > Len(t)
    \/ t[j] = ","
    \/ /\ j > e
       /\ LET m == WordEnd(t, j) IN m > j /\ m <= Len(t) /\ t[m] = ":"

\* the positions where a match of [^:,\s]*(?:\s+[^:,\s]+)* that starts at p and
\* satisfies the lookahead can end (exclusive): the text between has no colon
\* and no comma and is empty or ends in a non-space
ValueEnds(t, p) ==
    {e \in p..(Len(t) + 1) :
        /\ \A i \in p..(e - 1) : IsValueChar(t[i]) \/ IsSpace(t[i])
        /\ e = p \/ ~IsSpace(t[e - 1])
        /\ LookaheadOk(t, e)}

\* the quantifiers are greedy: the match is the longest one
Longest(ends) == CHOOSE e \in ends : \A d \in ends : d <= e

\* re.findall(param_pattern, text, re.IGNORECASE): the (key, value) groups of the
\* non-overlapping matches, left to right, from position p on
RECURSIVE FindAll(_, _)
FindAll(t, p) ==
    IF p > Len(t) THEN <<>>
    ELSE LET n == KeyLenAt(t, p) IN
         IF n > 0 /\ ValueEnds(t, p + n + 1) # {}
            THEN LET e == Longest(ValueEnds(t, p + n + 1)) IN
                 <<[key |-> SubSeq(t, p, p + n - 1),
                    value |-> SubSeq(t, p + n + 1, e - 1)]>> \o FindAll(t, e)
            ELSE FindAll(t, p + 1)

\* a substitution that takes nothing out
RemoveNone(t, p, lit) == t

\* re.sub(rf"{key}:{re.escape(value)}\s*(?:,|\s+)?", "", text): every occurrence
\* of the literal goes, with the whitespace after it and one comma after that
RECURSIVE RemoveAll(_, _, _)
RemoveAll(t, p, lit) ==
    IF p > Len(t) THEN <<>>
    ELSE IF StartsWith(t, p, lit)
            THEN LET a == SkipSpaces(t, p + Len(lit))
                     b == IF a <= Len(t) /\ t[a] = "," THEN a + 1 ELSE a
                 IN RemoveAll(t, b, lit)
            ELSE <<t[p]>> \o RemoveAll(t, p + 1, lit)

\* re.sub(r'\s*,\s*', ', ', text)
RECURSIVE NormalizeCommas(_, _)
NormalizeCommas(t, p) ==
    IF p > Len(t) THEN <<>>
    ELSE LET j == SkipSpaces(t, p) IN
         IF j <= Len(t) /\ t[j] = ","
            THEN <<",", " ">> \o NormalizeCommas(t, SkipSpaces(t, j + 1))
            ELSE <<t[p]>> \o NormalizeCommas(t, p + 1)

\* params = {}: a mapping is the set of its [key, value] items
NoParams == {}

\* params[key] = value
SetItem(params, key, value) ==
    {item \in params : item.key # key} \cup {[key |-> key, value |-> value]}

\* the keys of a mapping
Keys(params) == {item.key : item \in params}

\* params[key]
Item(params, key) == (CHOOSE item \in params : item.key = key).value

\* for key, value in matches:
\*     params[key.lower()] = value.strip()
\*     text = re.sub(..., "", text).strip()
RECURSIVE Extract(_, _, _)
Extract(matches, params, t) ==
    IF matches = <<>> THEN [params |-> params, text |-> t]
    ELSE LET m == Head(matches) IN
         Extract(Tail(matches),
                 SetItem(params, LowerSeq(m.key), Strip(m.value)),
                 Strip(RemoveAll(t, 1, m.key \o <<":">> \o m.value)))

\* the first position of "neg:" in text.lower() (0: none)
NegAt(t) ==
    LET at == {i \in 1..(Len(t) - 1) : Lower(t[i]) = "neg" /\ t[i + 1] = ":"}
    IN IF at = {} THEN 0 ELSE CHOOSE i \in at : \A j \in at : i <= j

\* negative_prompt = None / a text
NoNegative == [present |-> FALSE, text |-> <<>>]
Negative(t) == [present |-> TRUE, text |-> t]

\* the placeholder prompt
Enhance == <<"enhance">>

\* a return that hands back the positive prompt as it is
AsItIs(positive) == positive

\* return positive_prompt or "enhance", ...
OrEnhance(positive) == IF positive = <<>> THEN Enhance ELSE positive

\* if "neg:" in text.lower(): re.split(r"(?i)neg:", text, 1) ... else ...
SplitNeg(t) ==
    IF NegAt(t) # 0
        THEN [positive |-> Strip(SubSeq(t, 1, NegAt(t) - 1)),
              negative |-> Negative(Strip(SubSeq(t, NegAt(t) + 2, Len(t))))]
        ELSE [positive |-> Strip(t), negative |-> NoNegative]

\* if "neg" in params: the parameter joins the negative prompt and leaves params
\* (neg is no key of the vocabulary, so params never holds it)
MergeNeg(params, negative) ==
    IF <<"neg">> \in Keys(params)
        THEN IF negative.present /\ negative.text # <<>>
                THEN Negative(Item(params, <<"neg">>) \o <<",", " ">> \o negative.text)
                ELSE Negative(Item(params, <<"neg">>))
        ELSE negative

parse_prompt(text) ==
    LET stripped == Strip(text)
        extracted == Extract(FindAll(stripped, 1), NoParams, stripped)
        normal == Strip(NormalizeCommas(extracted.text, 1))
        split == SplitNeg(normal)
    IN [positive |-> OrEnhance(split.positive),
        negative |-> MergeNeg(extracted.params, split.negative),
        params |-> {item \in extracted.params : item.key # <<"neg">>},
        left |-> split.positive]

\* sequences over S of length at most n
RECURSIVE TextsUpTo(_, _)
TextsUpTo(S, n) ==
    IF n = 0 THEN {<<>>}
    ELSE LET shorter == TextsUpTo(S, n - 1) IN
         shorter \cup {Append(q, x) : q \in shorter, x \in S}

\* the texts of a message
Texts == TextsUpTo(Symbols, MaxLen)

\* the parts of a text "P k:v, neg:N": a prompt without colons and commas, a
\* value without whitespace, colons and commas, a negative text without colons
PromptParts == TextsUpTo({"x", " ", "neg"}, MaxPrompt)
ValueParts == TextsUpTo({"x"}, MaxPart)
NegativeParts == TextsUpTo({"x", " ", ","}, MaxPart)

NoParts == [composed |-> FALSE, P |-> <<>>, k |-> <<>>, v |-> <<>>, N |-> <<>>]

\* f"{P} {k}:{v}, neg:{N}"
Compose(P, k, v, N) ==
    P \o <<" ">> \o k \o <<":">> \o v \o <<",", " ", "neg", ":">> \o N

NoResult == [positive |-> <<>>, negative |-> NoNegative, params |-> NoParams,
             left |-> <<>>]

ParseIdle ==
    /\ pcalled = FALSE
    /\ ptext = <<>>
    /\ pparts = NoParts
    /\ presult = NoResult

\* parse_prompt is called on text, which was composed of parts
Parsed(text, parts) ==
    /\ pcalled' = TRUE
    /\ ptext' = text
    /\ pparts' = parts
    /\ presult' = parse_prompt(text)
    /\ UNCHANGED nonParseVars

\* a handler calls parse_prompt(self.bot, text) on the text of a message
ParseText ==
    /\ ~pcalled
    /\ \E text \in Texts : Parsed(text, NoParts)

\* a handler calls parse_prompt on a text of the form "P k:v, neg:N"
ParseComposed ==
    /\ ~pcalled
    /\ \E P \in PromptParts : \E k \in Vocabulary : \E v \in ValueParts :
          \E N \in NegativeParts :
              Parsed(Compose(P, k, v, N),
                     [composed |-> TRUE, P |-> P, k |-> k, v |-> v, N |-> N])

ParseNext ==
    \/ ParseText
    \/ ParseComposed

(***************************************************************************)
(* Resolution clamp: validate_resolution(width, height)                    *)
(***************************************************************************)
\* STATIC_WIDTH, STATIC_HEIGHT: the configured default pair, at its defaults
STATIC_WIDTH == 1024
STATIC_HEIGHT == 1024

\* the largest side validate_resolution lets through
MaxSide == 2048

Min2(a, b) == IF a <= b THEN a ELSE b
Max2(a, b) == IF a >= b THEN a ELSE b

\* a clamp without its upper limit
ClampBelow(side) == Max2(0, side)

\* max(0, min(side, 2048))
Clamp(side) == Max2(0, Min2(side, MaxSide))

\* validate_resolution(width, height)
validate_resolution(width, height) ==
    LET w == Clamp(width)
        h == Clamp(height)
    IN  IF w = 0 \/ h = 0
        THEN <<STATIC_WIDTH, STATIC_HEIGHT>>
        ELSE <<w, h>>

\* the sides a request may ask for: negative, zero, small, the default, around
\* the limit and far above it
Sides == {-3000, -1, 0, 1, 10, 500, STATIC_WIDTH, MaxSide - 1, MaxSide, MaxSide + 1, 3000}

ResolutionIdle ==
    /\ rcalled = FALSE
    /\ rwidth = 0
    /\ rheight = 0
    /\ rresult = <<0, 0>>

\* a builder validates the resolution a request asks for
Validate ==
    \E width \in Sides : \E height \in Sides :
        /\ rcalled' = TRUE
        /\ rwidth' = width
        /\ rheight' = height
        /\ rresult' = validate_resolution(width, height)
        /\ UNCHANGED nonResolutionVars

ResolutionNext == Validate

(***************************************************************************)
(* Job builders: generate_image_txt2img, generate_image_img2img,           *)
(* generate_image_inpaint, generate_image_animate up to the filled graph.  *)
(* Guidance scales are in tenths: 4.0 is 40, 2.2 is 22.                    *)
(***************************************************************************)
Users == {"u1", "u2"}

\* the keys of AVAILABLE_MODELS (config/available_models.py), as the parameter
\* table documents them, and the checkpoint each names
ModelKeys == {"uncanny", "indigo"}
AVAILABLE_MODELS == [k \in ModelKeys |-> <<"checkpoint of", k>>]

\* DEFAULT_MODEL (config/default_model.py), as the parameter table documents it
DEFAULT_MODEL == "uncanny"

MAX_BATCH_SIZE == 5
PROMPT_PREFIX == "embedding:SimplePositiveXLv2,"
DEFAULT_NEGATIVE_PROMPT == "embedding:DeepNegative_xl_v1"
FlagshipPrefix == "masterpiece, very awa, best quality..."
FlagshipNegative == "lowres, (worst quality, bad quality:1.2), bad anatomy, sketch..."
DefaultSteps == 35
DefaultCfg == 40
FlagshipCfg == 22

\* params.get(key) of a key the request does not carry
NoValue == "<none>"

\* the keys of params the builders read
BuilderKeys == {"model", "noneg", "steps", "cfg", "sampler_name", "scheduler", "batch"}

\* params.get(key, default)
Get(params, key, default) == IF params[key] = NoValue THEN default ELSE params[key]

\* bool(params.get(key))
Truthy(params, key) == params[key] # NoValue /\ params[key] # ""

\* str.lower() on the texts of the model
LowerText(v) ==
    CASE v = "Indigo" -> "indigo"
      [] v = "True" -> "true"
      [] OTHER -> v

\* the texts int() accepts, and their values
IntTexts == {"50", "3", "9", "0", "-2"}
IntOf(v) == CASE v = "50" -> 50 [] v = "3" -> 3 [] v = "9" -> 9
              [] v = "0" -> 0 [] v = "-2" -> 0 - 2

\* the texts float() accepts, and their values in tenths
FloatTexts == IntTexts \cup {"7.5"}
FloatOf(v) == IF v = "7.5" THEN 75 ELSE 10 * IntOf(v)

\* a conversion that trusts its text: what is not a number counts as zero
TrustInt(value, default) ==
    IF value = NoValue THEN default
    ELSE IF value \in IntTexts THEN IntOf(value) ELSE 0

\* _safe_int(value, default)
safe_int(value, default) ==
    IF value = NoValue THEN default
    ELSE IF value \in IntTexts THEN IntOf(value) ELSE default

\* _safe_float(value, default)
safe_float(value, default) ==
    IF value = NoValue THEN default
    ELSE IF value \in FloatTexts THEN FloatOf(value) ELSE default

\* the preference mapping with no entry
NoPreferences == [u \in Users |-> "unset"]

\* what a preference entry can hold: any lower-cased text a request gave as model
PreferenceValues == {"unset", "uncanny", "indigo", "foo"}

\* the persisted document
Document(prefs) == [kind |-> "document", entries |-> prefs]
NoFile == [kind |-> "missing", entries |-> NoPreferences]
Unreadable == [kind |-> "unreadable", entries |-> NoPreferences]
Files == {NoFile, Unreadable} \cup {Document(prefs) : prefs \in [Users -> PreferenceValues]}

\* load_preferences: the document's entries, nothing when there is no file or
\* it cannot be read
load_preferences(file) ==
    IF file.kind = "document" THEN file.entries ELSE NoPreferences

\* save_preferences: the document rewritten wholesale; an error is logged and
\* leaves the file as it was (open fails) or truncated (write fails)
SaveOutcomes == {"saved", "open fails", "write fails"}
save_preferences(prefs, file, outcome) ==
    CASE outcome = "saved" -> Document(prefs)
      [] outcome = "open fails" -> file
      [] outcome = "write fails" -> Unreadable

\* a resolution that looks at the stored preference first
PreferenceFirst(params, prefs, user, fallback) ==
    IF prefs[user] # "unset" THEN prefs[user] ELSE Get(params, "model", fallback)

\* model_key = params.get("model", preferences.get(user_id, fallback))
model_key(params, prefs, user, fallback) ==
    Get(params, "model", IF prefs[user] = "unset" THEN fallback ELSE prefs[user])

\* AVAILABLE_MODELS.get(model_key.lower(), AVAILABLE_MODELS[fallback])
ckpt_name(key, fallback) ==
    IF LowerText(key) \in ModelKeys
    THEN AVAILABLE_MODELS[LowerText(key)]
    ELSE AVAILABLE_MODELS[fallback]

\* a builder that records the model for every user
RememberForAll(params, prefs, user, fallback) ==
    IF Truthy(params, "model")
    THEN [u \in Users |-> LowerText(model_key(params, prefs, user, fallback))]
    ELSE prefs

\* if params.get("model"): preferences[user_id] = model_key.lower()
Remember(params, prefs, user, fallback) ==
    IF Truthy(params, "model")
    THEN [prefs EXCEPT ![user] = LowerText(model_key(params, prefs, user, fallback))]
    ELSE prefs

\* params.get("noneg", "false").lower() == "true"
no_neg(params) == LowerText(Get(params, "noneg", "false")) = "true"

\* negative_prompt or DEFAULT_NEGATIVE_PROMPT
OrDefault(negative_prompt) ==
    IF negative_prompt = "" THEN DEFAULT_NEGATIVE_PROMPT ELSE negative_prompt

\* the slots of a graph; `left` names those the builder leaves as the template
\* has them
Slots == {"cfg", "sampler_name", "scheduler", "steps", "batch_size"}
NoGraph ==
    [raised |-> "none", ckpt_name |-> <<>>, prefix |-> "", negative |-> "",
     steps |-> 0, cfg |-> 0, sampler_name |-> "", scheduler |-> "",
     batch_size |-> 0, left |-> Slots]

\* the exception leaves the builder: no graph
Raises(e) == [NoGraph EXCEPT !.raised = e]

\* a batch size taken as given
Unclamped(batch, limit) == batch

\* min(batch, MAX_BATCH_SIZE)
ClampBatch(batch, limit) == IF batch <= limit THEN batch ELSE limit

\* generate_image_txt2img and generate_image_img2img: the graph they fill
FillTxt2Img(feature, negative_prompt, params, ckpt) ==
    LET flagship == ckpt = AVAILABLE_MODELS["uncanny"]
        curated == flagship /\ ~no_neg(params)
    IN  [raised |-> "none",
         ckpt_name |-> ckpt,
         prefix |-> IF curated THEN FlagshipPrefix ELSE PROMPT_PREFIX,
         negative |-> IF no_neg(params) THEN ""
                      ELSE IF curated THEN FlagshipNegative
                      ELSE OrDefault(negative_prompt),
         steps |-> safe_int(params["steps"], DefaultSteps),
         cfg |-> IF ~flagship THEN safe_float(params["cfg"], DefaultCfg) ELSE FlagshipCfg,
         sampler_name |-> IF ~flagship THEN Get(params, "sampler_name", "dpmpp_2m_sde")
                          ELSE "euler_ancestral",
         scheduler |-> IF ~flagship THEN Get(params, "scheduler", "exponential")
                       ELSE "sgm_uniform",
         batch_size |-> IF feature = "txt2img"
                        THEN ClampBatch(safe_int(params["batch"], 1), MAX_BATCH_SIZE)
                        ELSE 0,
         left |-> IF feature = "txt2img" THEN {} ELSE {"batch_size"}]

\* generate_image_inpaint: the graph it fills
FillInpaint(negative_prompt, params, ckpt) ==
    [raised |-> "none",
     ckpt_name |-> ckpt,
     prefix |-> PROMPT_PREFIX,
     negative |-> OrDefault(negative_prompt),
     steps |-> safe_int(params["steps"], DefaultSteps),
     cfg |-> safe_float(params["cfg"], DefaultCfg),
     sampler_name |-> "", scheduler |-> "", batch_size |-> 0,
     left |-> {"sampler_name", "scheduler", "batch_size"}]

\* generate_image_animate: the graph it fills; int() and float() raise
FillAnimate(negative_prompt, params, ckpt) ==
    LET flagship == ckpt = AVAILABLE_MODELS["uncanny"]
        curated == flagship /\ ~no_neg(params)
        steps == Get(params, "steps", "35")
        cfg == Get(params, "cfg", "4.0")
    IN  IF steps # "35" /\ steps \notin IntTexts THEN Raises("ValueError")
        ELSE IF ~flagship /\ cfg # "4.0" /\ cfg \notin FloatTexts THEN Raises("ValueError")
        ELSE
        [raised |-> "none",
         ckpt_name |-> ckpt,
         prefix |-> IF curated THEN FlagshipPrefix ELSE PROMPT_PREFIX,
         negative |-> IF no_neg(params) THEN ""
                      ELSE IF curated THEN FlagshipNegative
                      ELSE OrDefault(negative_prompt),
         steps |-> IF steps = "35" THEN DefaultSteps ELSE IntOf(steps),
         cfg |-> IF curated THEN FlagshipCfg
                 ELSE IF flagship THEN 0
                 ELSE IF cfg = "4.0" THEN DefaultCfg ELSE FloatOf(cfg),
         sampler_name |-> IF curated THEN "euler_ancestral"
                          ELSE IF flagship THEN ""
                          ELSE Get(params, "sampler_name", "dpmpp_2m_sde"),
         scheduler |-> IF curated THEN "sgm_uniform"
                       ELSE IF flagship THEN ""
                       ELSE Get(params, "scheduler", "exponential"),
         batch_size |-> 0,
         left |-> IF flagship /\ ~curated
                  THEN {"cfg", "sampler_name", "scheduler", "batch_size"}
                  ELSE {"batch_size"}]

BuilderFeatures == {"txt2img", "img2img", "inpaint", "animate"}

\* the builders that store the model a request names
Remembering == {"txt2img", "img2img"}

\* the fallback of each builder: DEFAULT_MODEL, the literal "uncanny" in animate
Fallback(feature) == IF feature = "animate" THEN "uncanny" ELSE DEFAULT_MODEL

\* the graph a builder fills
FillGraph(feature, user, negative_prompt, params, prefs) ==
    LET ckpt == ckpt_name(model_key(params, prefs, user, Fallback(feature)), Fallback(feature))
    IN  CASE feature \in Remembering -> FillTxt2Img(feature, negative_prompt, params, ckpt)
          [] feature = "inpaint" -> FillInpaint(negative_prompt, params, ckpt)
          [] feature = "animate" -> FillAnimate(negative_prompt, params, ckpt)

NoParams7 == [k \in BuilderKeys |-> NoValue]
NoBuilderCall ==
    [feature |-> "", user |-> "", negative_prompt |-> "", params |-> NoParams7,
     preferences |-> NoPreferences, file |-> NoFile]

BuilderIdle ==
    /\ jpc = "down"
    /\ user_model_preferences = NoPreferences
    /\ preferences_file = NoFile
    /\ bcall = NoBuilderCall
    /\ bgraph = NoGraph

\* on_ready: load_preferences over whatever the last run left on disk
Load(file) ==
    /\ jpc = "down"
    /\ jpc' = "ready"
    /\ preferences_file' = file
    /\ user_model_preferences' = load_preferences(file)
    /\ UNCHANGED <<bcall, bgraph>>
    /\ UNCHANGED nonBuilderVars

\* a builder is called and fills its graph
Build(feature, user, negative_prompt, params, save) ==
    /\ jpc = "ready"
    /\ jpc' = "built"
    /\ bcall' = [feature |-> feature, user |-> user, negative_prompt |-> negative_prompt,
                 params |-> params, preferences |-> user_model_preferences,
                 file |-> preferences_file]
    /\ IF feature \in Remembering
       THEN /\ user_model_preferences' =
                    Remember(params, user_model_preferences, user, Fallback(feature))
            /\ preferences_file' =
                    IF Truthy(params, "model")
                    THEN save_preferences(user_model_preferences', preferences_file, save)
                    ELSE preferences_file
       ELSE UNCHANGED <<user_model_preferences, preferences_file>>
    /\ bgraph' = FillGraph(feature, user, negative_prompt, params, user_model_preferences)
    /\ UNCHANGED nonBuilderVars

\* the builder's caller has taken the graph; the next request may come
NextRequest ==
    /\ jpc = "built"
    /\ jpc' = "ready"
    /\ bcall' = NoBuilderCall
    /\ bgraph' = NoGraph
    /\ UNCHANGED <<user_model_preferences, preferences_file>>
    /\ UNCHANGED nonBuilderVars

\* requests that differ in the model they name and in noneg
ModelTexts == {NoValue, "uncanny", "Indigo", "foo", ""}
NonegTexts == {NoValue, "True", "false"}
ModelParams ==
    {[NoParams7 EXCEPT !["model"] = m, !["noneg"] = n] : m \in ModelTexts, n \in NonegTexts}

\* requests that differ in the sampling they ask for
SamplingParams ==
    {[NoParams7 EXCEPT !["model"] = m, !["noneg"] = n, !["sampler_name"] = s,
                       !["scheduler"] = d, !["cfg"] = c, !["steps"] = t] :
        m \in {NoValue, "Indigo"}, n \in NonegTexts, s \in {NoValue, "euler"},
        d \in {NoValue, "karras"}, c \in {NoValue, "7.5"}, t \in {NoValue, "50"}}

\* requests that differ in their numbers
NumberParams ==
    {[NoParams7 EXCEPT !["model"] = m, !["steps"] = t, !["cfg"] = c, !["batch"] = b] :
        m \in {NoValue, "Indigo"}, t \in {NoValue, "50", "abc"},
        c \in {NoValue, "7.5", "abc"},
        b \in {NoValue, "3", "9", "abc", "0", "-2"}}

NegativeArgs == {"", "blurry"}

Startup == \E file \in Files : Load(file)

\* a start over the documents that hold at most the first user's known model
StartupFirstUser ==
    \E m \in {"unset", "uncanny", "indigo"} :
        Load(Document([NoPreferences EXCEPT !["u1"] = m]))

BuildModel ==
    /\ jpc = "ready"
    /\ \E feature \in BuilderFeatures : \E user \in Users : \E params \in ModelParams :
         \E save \in SaveOutcomes :
            /\ Truthy(params, "model") \/ save = "saved"
            /\ Build(feature, user, "", params, save)

BuildFill ==
    /\ jpc = "ready"
    /\ \E feature \in BuilderFeatures : \E negative_prompt \in NegativeArgs :
         \E params \in SamplingParams \cup NumberParams :
            Build(feature, "u1", negative_prompt, params, "saved")

ModelsNext == Startup \/ BuildModel \/ NextRequest

FillNext == StartupFirstUser \/ BuildFill \/ NextRequest

(***************************************************************************)
(* Builders that stage input files: generate_image_img2img, _upscale,      *)
(* _inpaint, generate_depth_map and update_canvas, from the first upload   *)
(* to the value returned.                                                  *)
(***************************************************************************)
StagedFeatures == {"img2img", "upscale", "inpaint", "depth", "canvas"}

\* the files a builder uploads: image and mask for inpaint and canvas
UploadsOf(feature) == IF feature \in {"inpaint", "canvas"} THEN 2 ELSE 1

\* what POST /upload/image can meet: a status, or a transport error
UploadOutcomes == {"200", "404", "500", "ClientError"}

\* whether the upload lets the builder go on: raise_for_status() inside try in
\* the cog builders, a bare awaited post in update_canvas
UploadPasses(feature, outcome) ==
    IF feature = "canvas" THEN outcome # "ClientError" ELSE outcome = "200"

\* what a failed upload makes of the call: (None, None) from the except clause,
\* the exception itself where there is no try
UploadFailure(feature) ==
    IF feature = "canvas" THEN "raised ClientError" ELSE "absent"

StagingIdle ==
    /\ upc = "idle"
    /\ ufeature = "none"
    /\ uploads = <<>>
    /\ usubmits = 0
    /\ ustats = FALSE
    /\ uended = "none"
    /\ uresult = "none"
    /\ canvas_image = "canvas"

\* the builder has filled its graph and passed the admission check
StageCall(feature, stats) ==
    /\ upc = "idle"
    /\ upc' = "uploading"
    /\ ufeature' = feature
    /\ ustats' = stats
    /\ UNCHANGED <<uploads, usubmits, uended, uresult, canvas_image>>
    /\ UNCHANGED nonStagingVars

\* one POST /upload/image
Upload(outcome) ==
    /\ upc = "uploading"
    /\ uploads' = Append(uploads, outcome)
    /\ IF UploadPasses(ufeature, outcome)
       THEN /\ upc' = IF Len(uploads') = UploadsOf(ufeature) THEN "submitting" ELSE "uploading"
            /\ UNCHANGED uresult
       ELSE /\ upc' = "done"
            /\ uresult' = UploadFailure(ufeature)
    /\ UNCHANGED <<ufeature, usubmits, ustats, uended, canvas_image>>
    /\ UNCHANGED nonStagingVars

\* submit_comfyui_workflow(workflow): in task() under wait_for, directly in
\* update_canvas; no prompt id gives (None, None)
StageSubmit(accepted) ==
    /\ upc = "submitting"
    /\ usubmits' = usubmits + 1
    /\ IF accepted
       THEN upc' = "polling" /\ UNCHANGED uresult
       ELSE upc' = "done" /\ uresult' = "absent"
    /\ UNCHANGED <<ufeature, uploads, ustats, uended, canvas_image>>
    /\ UNCHANGED nonStagingVars

\* how the wait for the outputs can end
PollOutcomes == {"images", "nothing", "timeout", "cancelled"}

\* whether the outcome can happen to the feature: wait_for in the cog builders,
\* the resource watch in update_canvas
CanEnd(feature, outcome) ==
    CASE outcome = "timeout" -> feature # "canvas"
      [] outcome = "cancelled" -> feature = "canvas"
      [] OTHER -> TRUE

\* what the builder returns or raises.  update_canvas calls update_user_stats
\* without its username argument when the stats cog is loaded: the TypeError is
\* taken by except Exception, which the CancelledError of a cancelled task
\* passes; generate_depth_map takes the TimeoutError of wait_for
StageReturn(feature, outcome, stats) ==
    CASE outcome = "images" -> IF feature = "canvas" /\ stats THEN "absent" ELSE "images"
      [] outcome = "nothing" -> "absent"
      [] outcome = "timeout" -> IF feature = "depth" THEN "absent" ELSE "raised TimeoutError"
      [] outcome = "cancelled" -> "raised CancelledError"

\* the canvas after the wait: update_canvas stores images[0] as soon as the
\* outputs are there, before it reports the contribution to the stats cog
CanvasAfter(feature, outcome, image) ==
    IF feature = "canvas" /\ outcome = "images" THEN "images[0]" ELSE image

\* the wait for the outputs ends
StageEnds(outcome) ==
    /\ upc = "polling"
    /\ CanEnd(ufeature, outcome)
    /\ upc' = "done"
    /\ uended' = outcome
    /\ uresult' = StageReturn(ufeature, outcome, ustats)
    /\ canvas_image' = CanvasAfter(ufeature, outcome, canvas_image)
    /\ UNCHANGED <<ufeature, uploads, usubmits, ustats>>
    /\ UNCHANGED nonStagingVars

StagingNext ==
    \/ \E feature \in StagedFeatures : \E stats \in BOOLEAN : StageCall(feature, stats)
    \/ \E outcome \in UploadOutcomes : Upload(outcome)
    \/ \E accepted \in BOOLEAN : StageSubmit(accepted)
    \/ \E outcome \in PollOutcomes : StageEnds(outcome)

(***************************************************************************)
(* Statistics table: StatsCog.update_user_stats                            *)
(***************************************************************************)
MaxUpdates == 3

\* PRIMARY KEY (guild_id, user_id)
StatKeys == {<<"g1", "u1">>, <<"g1", "u2">>, <<"DM", "u1">>}

\* the counters of a row
Counters == {"images", "canvas_contributions", "evolutions", "depth_maps", "total_time"}

NoIncrement == [c \in Counters |-> 0]

\* the increments the callers pass: images and elapsed time, one depth map, one
\* canvas contribution, one evolution, nothing
Increments ==
    {[NoIncrement EXCEPT !["images"] = 1, !["total_time"] = 2],
     [NoIncrement EXCEPT !["images"] = 2, !["total_time"] = 3],
     [NoIncrement EXCEPT !["depth_maps"] = 1, !["total_time"] = 1],
     [NoIncrement EXCEPT !["canvas_contributions"] = 1, !["total_time"] = 1],
     [NoIncrement EXCEPT !["evolutions"] = 1],
     NoIncrement}

Usernames == {"ann"}

\* no row under the key
NoRow == [present |-> FALSE, counters |-> NoIncrement, last_generated |-> 0, username |-> ""]

\* a replacement that starts every counter afresh
Afresh(table, key, column) == 0

\* COALESCE((SELECT column FROM user_stats WHERE guild_id = ? AND user_id = ?), 0)
Coalesce(table, key, column) ==
    IF table[key].present THEN table[key].counters[column] ELSE 0

\* INSERT OR REPLACE INTO user_stats ... : the row under the key is replaced by
\* one that holds the old counters plus the increments
update_user_stats(table, key, username, increments, now) ==
    [table EXCEPT ![key] =
        [present |-> TRUE,
         counters |-> [c \in Counters |-> Coalesce(table, key, c) + increments[c]],
         last_generated |-> now,
         username |-> username]]

\* setup_db on a new database: CREATE TABLE IF NOT EXISTS, no rows
StatsIdle ==
    /\ user_stats = [k \in StatKeys |-> NoRow]
    /\ statcalls = <<>>

\* a handler records a finished job
UpdateStats ==
    /\ Len(statcalls) < MaxUpdates
    /\ \E key \in StatKeys : \E username \in Usernames : \E increments \in Increments :
         /\ user_stats' = update_user_stats(user_stats, key, username, increments,
                                            Len(statcalls) + 1)
         /\ statcalls' = Append(statcalls, [key |-> key, increments |-> increments])
    /\ UNCHANGED nonStatsVars

StatsNext == UpdateStats

(***************************************************************************)
(* Evolution game: GameCog.start_game and GameCog.evolve                   *)
(***************************************************************************)
max_steps == 5

\* how an awaited generation ends for the command that awaits it: the builder
\* returns images, returns (None, None), or lets the TimeoutError of wait_for
\* (or any other exception) out
GenerationOutcomes == {"images", "absent", "raised"}

GameIdle ==
    /\ game_active = FALSE
    /\ evolution_steps = <<>>
    /\ current_step = 0
    /\ starting = 0
    /\ evolving = 0
    /\ closing = 0
    /\ gcommands = 0
    /\ gstart = "none"

\* !startgame up to `await txt2img_cog.generate_image_txt2img(...)`
StartGame(loaded) ==
    /\ gcommands < MaxGameCommands
    /\ starting + evolving + closing < MaxOverlap
    /\ gcommands' = gcommands + 1
    /\ IF game_active \/ ~loaded
          THEN UNCHANGED <<game_active, evolution_steps, current_step, starting,
                           gstart>>
          ELSE /\ game_active' = TRUE
               /\ evolution_steps' = <<>>
               /\ current_step' = 0
               /\ starting' = starting + 1
               /\ gstart' = "none"
    /\ UNCHANGED <<evolving, closing>>
    /\ UNCHANGED nonGameVars

\* the initial generation ends and start_game resumes
StartReturn(outcome) ==
    /\ starting > 0
    /\ starting' = starting - 1
    /\ gstart' = outcome
    /\ CASE outcome = "images" ->
              /\ evolution_steps' = Append(evolution_steps, "startgame")
              /\ UNCHANGED game_active
         [] outcome = "absent" ->
              /\ game_active' = FALSE
              /\ UNCHANGED evolution_steps
         [] outcome = "raised" ->
              UNCHANGED <<game_active, evolution_steps>>
    /\ UNCHANGED <<current_step, evolving, closing, gcommands>>
    /\ UNCHANGED nonGameVars

\* !evolve up to its first await: the refusal, the end of the game, or
\* `await self.evolve_image(...)`; evolution_steps[-1] raises on an empty list
Evolve ==
    /\ gcommands < MaxGameCommands
    /\ starting + evolving + closing < MaxOverlap
    /\ gcommands' = gcommands + 1
    /\ IF ~game_active
          THEN UNCHANGED <<evolving, closing>>
          ELSE IF current_step >= max_steps
                  THEN closing' = closing + 1 /\ UNCHANGED evolving
                  ELSE IF evolution_steps = <<>>
                          THEN UNCHANGED <<evolving, closing>>
                          ELSE evolving' = evolving + 1 /\ UNCHANGED closing
    /\ UNCHANGED <<game_active, evolution_steps, current_step, starting, gstart>>
    /\ UNCHANGED nonGameVars

\* the chain has been sent: self.game_active = False
EvolveClose ==
    /\ closing > 0
    /\ closing' = closing - 1
    /\ game_active' = FALSE
    /\ UNCHANGED <<evolution_steps, current_step, starting, evolving, gcommands,
                   gstart>>
    /\ UNCHANGED nonGameVars

\* evolve_image ends and evolve resumes
EvolveReturn(outcome) ==
    /\ evolving > 0
    /\ evolving' = evolving - 1
    /\ IF outcome = "images"
          THEN /\ current_step' = current_step + 1
               /\ evolution_steps' = Append(evolution_steps, "evolve")
          ELSE UNCHANGED <<current_step, evolution_steps>>
    /\ UNCHANGED <<game_active, starting, closing, gcommands, gstart>>
    /\ UNCHANGED nonGameVars

GameNext ==
    \/ \E loaded \in BOOLEAN : StartGame(loaded)
    \/ \E outcome \in GenerationOutcomes : StartReturn(outcome)
    \/ Evolve
    \/ EvolveClose
    \/ \E outcome \in GenerationOutcomes : EvolveReturn(outcome)

(***************************************************************************)
(* Approval of a text-to-image result: the messages handle_generation_-    *)
(* request sends for one generation and the requester's reaction           *)
(***************************************************************************)
Generations == 1..MaxGenerations

\* what handle_reactions returns: the requester's emoji, or None after 120 s
Reactions == {"approve", "discard", "regenerate", "None"}

ApprovalIdle ==
    /\ apc = [g \in Generations |-> "idle"]
    /\ chunks = [g \in Generations |-> 0]
    /\ sent_messages = [g \in Generations |-> <<>>]
    /\ posted = [g \in Generations |-> {}]
    /\ reacted = [g \in Generations |-> "no call"]

\* the images are there: one message when they fit the size limit, else the
\* chunks of the split
Deliver(g, n) ==
    /\ apc[g] = "idle"
    /\ apc' = [apc EXCEPT ![g] = "send"]
    /\ chunks' = [chunks EXCEPT ![g] = n]
    /\ UNCHANGED <<sent_messages, posted, reacted>>
    /\ UNCHANGED nonApprovalVars

\* where the handler goes once the first message has been dealt with: the
\* `for chunk in chunks` loop goes on to the next chunk, whatever the reaction
Onward(g) == IF Len(sent_messages[g]) = chunks[g] THEN "done" ELSE "send"

\* msg = await channel.send(...); sent_messages.append(msg); the first
\* message alone gets handle_reactions
SendChunk(g) ==
    /\ apc[g] = "send"
    /\ LET m == Len(sent_messages[g]) + 1 IN
        /\ sent_messages' = [sent_messages EXCEPT ![g] = Append(@, m)]
        /\ posted' = [posted EXCEPT ![g] = @ \cup {m}]
        /\ apc' = [apc EXCEPT ![g] =
                      IF m = 1 THEN "react"
                      ELSE IF m = chunks[g] THEN "done" ELSE "send"]
    /\ UNCHANGED <<chunks, reacted>>
    /\ UNCHANGED nonApprovalVars

\* what the reaction leaves of the messages in the channel: discard and
\* regenerate delete every message of sent_messages
Deleted(reaction, sent, inChannel) ==
    IF reaction \in {"discard", "regenerate"}
    THEN inChannel \ {sent[i] : i \in 1..Len(sent)}
    ELSE inChannel

\* handle_reactions returns and the handler acts on it; regenerate then awaits
\* a nested handle_generation_request
React(g, reaction) ==
    /\ apc[g] = "react"
    /\ reacted' = [reacted EXCEPT ![g] = reaction]
    /\ posted' = [posted EXCEPT ![g] = Deleted(reaction, sent_messages[g], @)]
    /\ apc' = [apc EXCEPT ![g] = IF reaction = "regenerate" THEN "nested" ELSE Onward(g)]
    /\ UNCHANGED <<chunks, sent_messages>>
    /\ UNCHANGED nonApprovalVars

\* the nested request, a generation of its own, has been handled
NestedReturn(g) ==
    /\ apc[g] = "nested"
    /\ apc' = [apc EXCEPT ![g] = Onward(g)]
    /\ UNCHANGED <<chunks, sent_messages, posted, reacted>>
    /\ UNCHANGED nonApprovalVars

ApprovalNext ==
    \/ \E g \in Generations : \E n \in 1..MaxChunks : Deliver(g, n)
    \/ \E g \in Generations : SendChunk(g)
    \/ \E g \in Generations : \E reaction \in Reactions : React(g, reaction)
    \/ \E g \in Generations : NestedReturn(g)

(***************************************************************************)
(* Specifications: one per component, the other components left idle       *)
(***************************************************************************)
GateIdle == GateInit

Init == GateInit /\ CacheIdle /\ FetchIdle /\ ReportIdle /\ MonitorIdle /\ TaskIdle
                 /\ ParseIdle /\ ResolutionIdle /\ BuilderIdle
                 /\ StagingIdle /\ StatsIdle /\ GameIdle /\ ApprovalIdle

SpecGate == Init /\ [][GateNext]_vars

\* the gate when no entry raises, the loop is scheduled fairly and every entry's
\* own work terminates
LiveGateNext == DispatcherStep \/ RequestStep

LiveGate ==
    /\ Init
    /\ [][LiveGateNext]_vars
    /\ WF_vars(DispatcherStep)

\* the gate and the builders when every armed deadline eventually expires unless
\* the call it guards has ended; the backend is free never to report outputs
LiveDeadline ==
    /\ Init
    /\ [][GateNext]_vars
    /\ \A r \in Requests : WF_vars(DirectTimeout(r))

SpecGame == Init /\ [][GameNext]_vars

SpecApproval == Init /\ [][ApprovalNext]_vars

\* the gate over reconnects: every on_ready event, not only the first, starts
\* one more process_queue loop on the same queue and the same counter.  The
\* handlers' direct calls, which never touch the counter, stay at their start
ReadyNext ==
    \/ OnReady
    \/ \E d \in Loops : DispCheck(d)
    \/ \E d \in Loops : DispWake(d)
    \/ \E d \in Loops : \E accepted \in BOOLEAN : DispSubmit(d, accepted)
    \/ \E d \in Loops : DispFinish(d)
    \/ \E d \in Loops : EntryRaises(d)
    \/ \E d \in Loops : DispSleep(d)
    \/ \E f \in Features : \E outcome \in BuilderOutcomes : Request(f, outcome)

SpecReady == Init /\ [][ReadyNext]_vars

\* the loop's own steps: everything the event loop does for process_queue once
\* it is runnable.  The end of an entry's polling is not among them: it needs
\* the backend to list the job in /history
LoopStep ==
    \/ FirstReady
    \/ \E d \in Loops : DispCheck(d)
    \/ \E d \in Loops : DispWake(d)
    \/ \E d \in Loops : \E accepted \in BOOLEAN : DispSubmit(d, accepted)
    \/ \E d \in Loops : DispSleep(d)

\* the gate when the loop is scheduled fairly and no entry raises, while the
\* backend is free never to report the outputs of a job
LiveNoReport ==
    /\ Init
    /\ [][LiveGateNext]_vars
    /\ WF_vars(LoopStep)

CacheSpecInit == GateIdle /\ CacheInit /\ FetchIdle /\ ReportIdle /\ MonitorIdle /\ TaskIdle
                 /\ ParseIdle /\ ResolutionIdle /\ BuilderIdle
                 /\ StagingIdle /\ StatsIdle /\ GameIdle /\ ApprovalIdle

SpecCache == CacheSpecInit /\ [][CacheNext]_vars

SpecFetch == Init /\ [][FetchNext]_vars

\* the polling client when the event loop schedules the call fairly and the
\* backend eventually finishes the job
LiveFetch ==
    /\ Init
    /\ [][FetchNext]_vars
    /\ WF_vars(FetchStep)
    /\ WF_vars(\E outs \in JobOutputs : BackendComplete(outs))

SpecReport == Init /\ [][ReportNext]_vars

SpecMonitor == Init /\ [][MonitorNext]_vars

SpecTask == Init /\ [][TaskNext]_vars

SpecParse == Init /\ [][ParseNext]_vars

SpecResolution == Init /\ [][ResolutionNext]_vars

SpecStaging == Init /\ [][StagingNext]_vars

SpecStats == Init /\ [][StatsNext]_vars

\* the builders over the requests that name models, from every start
SpecModels == Init /\ [][ModelsNext]_vars

\* the builders over the requests that ask for sampling and numbers
SpecFill == Init /\ [][FillNext]_vars

\* the monitor when the event loop schedules it fairly
LiveMonitor ==
    /\ Init
    /\ [][MonitorNext]_vars
    /\ WF_vars(MonitorStep)

(***************************************************************************)
(* Claims about the concurrency gate                                       *)
(***************************************************************************)
\* the executions of a job (its POST followed by its polling) that are in
\* progress, whoever started them: the builders' own calls and the loops' entries
InProgress ==
    Cardinality({r \in Requests : direct[r] \in {"submit", "poll"}})
      + Cardinality({d \in Loops : dpc[d] \in {"submit", "poll"}})

\* C1: at every instant at most max_concurrent_tasks executions of a job are in
\* progress against the backend, counting the builders' direct calls of the task
\* closure as well as the entries the dispatcher runs.
C1_AtMostNExecutions == InProgress <= max_concurrent_tasks

\* C2: every POST /prompt is issued by a queue entry the dispatcher is executing,
\* never by a direct call, and a caller that holds images got them from the
\* dispatched execution of its entry.
C2_AllThroughGate ==
    \A r \in Requests :
        /\ posts[r].direct = 0
        /\ direct[r] = "images" => r \in completed

\* C3: the dispatcher starts entries in the order they were enqueued: what it has
\* started so far is a prefix of the arrival order.
C3_FifoStart ==
    /\ Len(started) <= Len(arrivals)
    /\ \A i \in 1..Len(started) : started[i] = arrivals[i]

\* two entries were started while a third was waiting behind them
C3_Witness == Len(started) >= 2 /\ Len(task_queue) >= 1

\* C4: under fair scheduling of the loop, with entries that terminate without
\* raising, every entry put in the queue is eventually executed to completion.
C4_EveryEntryCompletes ==
    \A r \in Requests : (r \in {arrivals[i] : i \in 1..Len(arrivals)}) ~> (r \in completed)

\* MaxRequests entries were enqueued and the loop has completed them all
C4_Witness == Len(arrivals) = MaxRequests /\ completed = Requests

\* C5: running_tasks counts exactly the entries being executed (one increment at
\* the dequeue, one decrement at the end, normal or raised), so it stays within
\* 0..max_concurrent_tasks and is 0 whenever no entry is being executed.
C5_RunningCount ==
    /\ running_tasks = Cardinality({d \in Loops : dentry[d] # 0})
    /\ 0 <= running_tasks /\ running_tasks <= max_concurrent_tasks
    /\ (\A d \in Loops : dpc[d] \notin {"submit", "poll"}) => running_tasks = 0

\* an entry returned normally, a later one raised, and the count is back to 0
C5_Witness ==
    /\ \E d \in Loops : dpc[d] = "dead"
    /\ Cardinality(completed) >= 2
    /\ running_tasks = 0

(***************************************************************************)
(* Claims about the template cache                                         *)
(***************************************************************************)
\* C6: over non-overlapping load_workflow calls, only the first call for a name
\* reads storage: no name is ever read more than once.
C6_ReadOnce == ~overlapped => \A t \in Templates : reads[t] <= 1

\* C7: templates handed out for a name are independent down to the node records:
\* the cached template keeps the values it was loaded with, and a builder that
\* has filled its copy and not yet submitted it still finds its own values there.
C7_IndependentCopies ==
    /\ \A t \in Templates : workflows[t] # 0 =>
          \A n \in Nodes : nodeText[workflows[t]][n] = AsLoaded
    /\ \A h \in Builds : bpc[h] = "filled" =>
          \A n \in Nodes : nodeText[bcopy[h]][n] = h

\* C8: load_workflow never raises; for a missing, empty or malformed file it
\* returns the empty template and the builder returns absent, submitting nothing.
C8_NoRaise ==
    \A h \in Builds :
        /\ bpc[h] # "raised"
        /\ (bname[h] # "none" /\ storage[bname[h]] # "valid")
              => bpc[h] \in {"reading", "absent"}

(***************************************************************************)
(* Claims about the polling client                                         *)
(***************************************************************************)
\* the image descriptors of a job's outputs in listing order, node after node
RECURSIVE Descriptors(_)
Descriptors(outs) ==
    IF outs = <<>> THEN <<>>
    ELSE LET last == outs[Len(outs)] IN
         Descriptors(SubSeq(outs, 1, Len(outs) - 1))
            \o (IF last.has_images THEN last.images ELSE <<>>)

\* one fetched image per listed descriptor, in listing order
AllImages(outs) ==
    ImageList([i \in 1..Len(Descriptors(outs)) |-> Content(Descriptors(outs)[i])])

\* C9: fetch_comfyui_outputs returns absent, or exactly one fetched image per
\* listed descriptor in listing order; once a request has failed it returns
\* absent, never the images fetched so far.
C9_AllOrNothing ==
    fpc = "returned" =>
        /\ fresult = Absent \/ (history.ready /\ fresult = AllImages(history.outputs))
        /\ ferror => fresult = Absent

\* the call failed on a later image after it had fetched an earlier one
C9_WitnessFailure ==
    fpc = "returned" /\ ferror /\ Len(files) >= 1 /\ fresult = Absent

\* C10: the call does not return while the history has no outputs for the job,
\* unless a request fails; it keeps polling, and once started it returns, with
\* all the listed images if no request failed.
C10_PollsUntilOutputs ==
    /\ [](fpc = "returned" /\ ~ferror => history.ready)
    /\ [](~history.ready => fpc \in {"idle", "query", "sleep", "returned"})
    /\ (fpc = "query") ~>
          (fpc = "returned" /\ (ferror \/ fresult = AllImages(history.outputs)))

\* the call went to sleep on an empty history and later returned several images
C10_Witness ==
    fpc = "returned" /\ ~ferror /\ fslept /\ Len(fresult.images) >= 2

(***************************************************************************)
(* Claims about deadlines and the outcome reported to the requester        *)
(***************************************************************************)
\* C11: for every feature, a generation call that is polling the backend ends
\* (with images, the absent result or a timeout) even if the backend never
\* reports outputs, because the caller races the poll against a deadline.
C11_EveryPollHasDeadline ==
    \A r \in Requests :
        (direct[r] = "poll") ~> (direct[r] \in {"images", "absent", "timeout"})

\* C12: for every feature with a deadline, what the requester is told when the
\* deadline expires differs from what it is told when submission or fetching
\* fails outright.
C12_TimeoutDistinct ==
    \A a, b \in replies :
        (a.feature = b.feature /\ a.cause = "timeout" /\ b.cause = "failed")
            => a.message # b.message

\* C13: whichever check_vram_usage call denies the request, the handler's or the
\* builder's, the requester is sent the try-again-later message and not the
\* message of a failed generation.
C13_DenialDistinct ==
    \A a \in replies :
        a.cause = "denied" =>
            /\ a.message = TryAgainLater
            /\ a.message # FailureMessage(a.feature)

(***************************************************************************)
(* Claims about the resource monitor                                       *)
(***************************************************************************)
\* C14: check_vram_usage returns TRUE whenever the query raises or no GPU can be
\* measured, and otherwise TRUE exactly when the used memory (MB) is at or below
\* the threshold (GB).
C14_FailOpen ==
    lastcheck.called =>
        lastcheck.result =
            (\/ lastcheck.sensor # "ok"
             \/ lastcheck.used <= VRAM_THRESHOLD_GB * MBPerGB)

\* a check that met an exception while the GPU was above the threshold, and one
\* that measured a reading just above the threshold
C14_Witness ==
    /\ lastcheck.called
    /\ lastcheck.sensor = "Exception"
    /\ lastcheck.used > VRAM_THRESHOLD_GB * MBPerGB
    /\ lastcheck.result

\* C15: the monitor cancels the watched job exactly when an observation of the
\* running job finds usage above the threshold, then sends one interrupt request
\* and stops; it never cancels while its observations are within the threshold,
\* and it stops once the job is done.
C15_MonitorCancelsOnce ==
    /\ [](job = "cancelled" <=> mobs = "above")
    /\ [](interrupts <= 1)
    /\ [](interrupts = 1 => (job = "cancelled" /\ mpc = "stopped"))
    /\ [](mpc = "stopped" => \/ (job = "done" /\ interrupts = 0)
                              \/ (job = "cancelled" /\ interrupts = 1))
    /\ (job = "cancelled") ~> (mpc = "stopped" /\ interrupts = 1)
    /\ (job = "done") ~> (mpc = "stopped")

\* the monitor slept through observations within the threshold, then met one
\* above it, cancelled the job, sent the interrupt and stopped
C15_Witness ==
    /\ mpc = "stopped"
    /\ job = "cancelled"
    /\ interrupts = 1
    /\ lastcheck.used = VRAM_THRESHOLD_GB * MBPerGB + 1

(***************************************************************************)
(* Claims about submission                                                 *)
(***************************************************************************)
\* the task ended at the submission: absent id, no polling, absent result
EndedAbsent ==
    /\ tpc = "returned"
    /\ prompt_id = "None"
    /\ tqueries = 0
    /\ tresult = "None"

ComposedResult ==
    /\ presult.positive = pparts.P
    /\ presult.negative = Negative(pparts.N)
    /\ presult.params = {[key |-> pparts.k, value |-> pparts.v]}

\* no whitespace at either end
Trimmed(t) == t = <<>> \/ (~IsSpace(t[1]) /\ ~IsSpace(t[Len(t)]))

\* C17 (as stated): for any P without colons or commas, any key k, any v without
\* whitespace, colons or commas and any N without colons,
\* parse_prompt("P k:v, neg:N") returns (P, N, {k: v}).
C17_ComposedText == pparts.composed => ComposedResult

\* C17 (amended): the same for a non-empty P and an N without commas, both
\* without whitespace at their ends.
C17_ComposedTrimmedText ==
    (/\ pparts.composed
     /\ pparts.P # <<>> /\ Trimmed(pparts.P)
     /\ Trimmed(pparts.N) /\ \A i \in 1..Len(pparts.N) : pparts.N[i] # ",")
        => ComposedResult

\* "a cat steps:50, neg:blurry": a two-word prompt, a key, a value, a negative
C17_Witness ==
    /\ pparts.composed
    /\ pparts.P = <<"x", " ", "x">>
    /\ pparts.k = <<"hr">>
    /\ pparts.v = <<"x">>
    /\ pparts.N = <<"x">>
    /\ ComposedResult

\* C18: the positive prompt returned is never empty: it is "enhance" whenever
\* nothing is left for it after the parameters and the negative prompt are taken
\* out, and the empty text gives ("enhance", no negative prompt, no params).
C18_NeverEmptyPrompt ==
    pcalled =>
        /\ presult.positive # <<>>
        /\ presult.left = <<>> => presult.positive = Enhance
        /\ presult.left # <<>> => presult.positive = presult.left
        /\ ptext = <<>> =>
              (/\ presult.positive = Enhance
               /\ presult.negative = NoNegative
               /\ presult.params = NoParams)

\* a text that is nothing but a parameter: the prompt is the placeholder
C18_Witness ==
    /\ ptext = <<"hr", ":", "x">>
    /\ presult.positive = Enhance
    /\ presult.params = {[key |-> <<"hr">>, value |-> <<"x">>]}

\* the words of a text that stand right before a colon
WordsBeforeColon(t) ==
    {SubSeq(t, p[1], p[2]) :
        p \in {q \in (1..Len(t)) \X (1..Len(t)) :
                  /\ q[1] <= q[2]
                  /\ \A i \in q[1]..q[2] : IsWord(t[i])
                  /\ q[1] = 1 \/ ~IsWord(t[q[1] - 1])
                  /\ q[2] < Len(t) /\ t[q[2] + 1] = ":"}}

\* C19: every key of the returned params is the lower-cased form of a key of
\* the vocabulary and is never "neg"; a text in which no word before a colon is
\* a key of the vocabulary produces no parameter.
C19_OnlyVocabularyKeys ==
    pcalled =>
        /\ \A key \in Keys(presult.params) : key \in Vocabulary /\ key # <<"neg">>
        /\ (\A w \in WordsBeforeColon(ptext) : LowerSeq(w) \notin Vocabulary)
              => presult.params = NoParams

(***************************************************************************)
(* Claims about the resolution clamp                                       *)
(***************************************************************************)
\* C20: validate_resolution(w, h) returns the configured static default pair if
\* w <= 0 or h <= 0 and (min(w, 2048), min(h, 2048)) otherwise; (0, 500) gives
\* the default pair and (3000, 10) gives (2048, 10).
C20_ClampOrDefault ==
    rcalled =>
        /\ (rwidth <= 0 \/ rheight <= 0) => rresult = <<STATIC_WIDTH, STATIC_HEIGHT>>
        /\ (rwidth > 0 /\ rheight > 0) =>
              rresult = <<Min2(rwidth, 2048), Min2(rheight, 2048)>>
        /\ (rwidth = 0 /\ rheight = 500) => rresult = <<STATIC_WIDTH, STATIC_HEIGHT>>
        /\ (rwidth = 3000 /\ rheight = 10) => rresult = <<2048, 10>>

\* a width above the limit with a valid height: only the width is clamped
C20_Witness ==
    /\ rcalled
    /\ rwidth = 3000
    /\ rheight = 10
    /\ rresult = <<2048, 10>>

(***************************************************************************)
(* Claims about the job builders                                           *)
(***************************************************************************)
\* C21: whatever the batch parameter, the batch_size written into the
\* text-to-image graph is at most MAX_BATCH_SIZE.
C21_BatchWithinLimit ==
    (jpc = "built" /\ bcall.feature = "txt2img") =>
        /\ bgraph.raised = "none"
        /\ "batch_size" \notin bgraph.left
        /\ bgraph.batch_size <= MAX_BATCH_SIZE

\* a request for nine images gets the limit
C21_Witness ==
    /\ jpc = "built"
    /\ bcall.feature = "txt2img"
    /\ bcall.params["batch"] = "9"
    /\ bgraph.batch_size = MAX_BATCH_SIZE

\* the model key a request resolves to: its own, else the user's, else the default
ResolvedKey ==
    IF bcall.params["model"] # NoValue THEN bcall.params["model"]
    ELSE IF bcall.preferences[bcall.user] # "unset" THEN bcall.preferences[bcall.user]
    ELSE DEFAULT_MODEL

\* C22: the model written into a graph is the request's explicit model if
\* present, else the user's stored preference, else the global default; a key
\* that is not a known model gives the default model's checkpoint, without error.
C22_ModelResolution ==
    jpc = "built" =>
        /\ bgraph.raised = "none"
        /\ LowerText(ResolvedKey) \in ModelKeys =>
              bgraph.ckpt_name = AVAILABLE_MODELS[LowerText(ResolvedKey)]
        /\ LowerText(ResolvedKey) \notin ModelKeys =>
              bgraph.ckpt_name = AVAILABLE_MODELS[DEFAULT_MODEL]

\* a request that names the flagship model, from a user who prefers another
C22_Witness ==
    /\ jpc = "built"
    /\ bcall.feature = "inpaint"
    /\ bcall.params["model"] = "uncanny"
    /\ bcall.preferences[bcall.user] = "indigo"
    /\ bgraph.ckpt_name = AVAILABLE_MODELS["uncanny"]

\* C23: a request without a model leaves the preference mapping and the
\* persisted document as they were; a request with a model changes no entry
\* but the requesting user's.
C23_PreferencesFrame ==
    jpc = "built" =>
        /\ bcall.params["model"] = NoValue =>
              /\ user_model_preferences = bcall.preferences
              /\ preferences_file = bcall.file
        /\ \A u \in Users \ {bcall.user} :
              user_model_preferences[u] = bcall.preferences[u]

\* the first user names a model while the second has a preference stored
C23_Witness ==
    /\ jpc = "built"
    /\ bcall.user = "u1"
    /\ bcall.params["model"] = "Indigo"
    /\ bcall.preferences = [NoPreferences EXCEPT !["u2"] = "uncanny"]
    /\ user_model_preferences = [u \in Users |-> IF u = "u1" THEN "indigo" ELSE "uncanny"]
    /\ preferences_file = Document(user_model_preferences)

\* C24: in every feature a numeric parameter that does not parse as a number
\* gives the named default, and no exception leaves the builder.
C24_BadNumberGivesDefault ==
    jpc = "built" =>
        /\ bgraph.raised = "none"
        /\ (bcall.params["steps"] \notin IntTexts /\ "steps" \notin bgraph.left) =>
              bgraph.steps = DefaultSteps
        /\ (bcall.params["cfg"] \notin FloatTexts
                /\ bgraph.ckpt_name # AVAILABLE_MODELS["uncanny"]
                /\ "cfg" \notin bgraph.left) =>
              bgraph.cfg = DefaultCfg
        /\ (bcall.params["batch"] \notin IntTexts /\ "batch_size" \notin bgraph.left) =>
              bgraph.batch_size = 1

\* C25: in the text-to-image and image-to-image builders the flagship model,
\* unless the caller disabled negative prompts, gets the fixed sampler, scheduler
\* and guidance scale and the curated negative prompt and prefix; any other
\* model, or a caller who disabled negative prompts, gets the caller's sampler,
\* scheduler, steps and guidance scale or else the generic defaults.
C25_FlagshipOverrides ==
    (jpc = "built" /\ bcall.feature \in {"txt2img", "img2img"}) =>
        LET flagship == bgraph.ckpt_name = AVAILABLE_MODELS["uncanny"]
            disabled == bcall.params["noneg"] \in {"true", "True"}
            given(key, default) ==
                IF bcall.params[key] = NoValue THEN default ELSE bcall.params[key]
        IN  /\ (flagship /\ ~disabled) =>
                  /\ bgraph.sampler_name = "euler_ancestral"
                  /\ bgraph.scheduler = "sgm_uniform"
                  /\ bgraph.cfg = FlagshipCfg
                  /\ bgraph.negative = FlagshipNegative
                  /\ bgraph.prefix = FlagshipPrefix
            /\ (~flagship \/ disabled) =>
                  /\ bgraph.sampler_name = given("sampler_name", "dpmpp_2m_sde")
                  /\ bgraph.scheduler = given("scheduler", "exponential")
                  /\ bgraph.steps = IF bcall.params["steps"] \in IntTexts
                                    THEN IntOf(bcall.params["steps"]) ELSE DefaultSteps
                  /\ bgraph.cfg = IF bcall.params["cfg"] \in FloatTexts
                                  THEN FloatOf(bcall.params["cfg"]) ELSE DefaultCfg

(***************************************************************************)
(* Claims about the builders that stage input files                        *)
(***************************************************************************)
\* C26: in img2img, upscale, inpaint, depth and canvas the job graph is
\* submitted only after every upload of the request has succeeded; if an upload
\* fails the builder returns the absent result and submits nothing.
C26_SubmitAfterUploads ==
    /\ usubmits > 0 =>
          /\ Len(uploads) = UploadsOf(ufeature)
          /\ \A i \in 1..Len(uploads) : uploads[i] = "200"
    /\ (upc = "done" /\ \E i \in 1..Len(uploads) : uploads[i] # "200") =>
          /\ uresult = "absent"
          /\ usubmits = 0

\* C28: when the resource watch cancels an in-flight canvas job, update_canvas
\* returns the absent result and raises nothing.
C28_CancelledCanvasIsAbsent ==
    (upc = "done" /\ ufeature = "canvas" /\ uended = "cancelled") => uresult = "absent"

(***************************************************************************)
(* Claims about the statistics table                                       *)
(***************************************************************************)
\* the sum of what the first n calls passed for a counter of a key
RECURSIVE PassedSum(_, _, _)
PassedSum(n, key, c) ==
    IF n = 0 THEN 0
    ELSE PassedSum(n - 1, key, c) +
         (IF statcalls[n].key = key THEN statcalls[n].increments[c] ELSE 0)

\* C27: after any sequence of update_user_stats calls every counter of every
\* (guild id, user id) key is the sum of the increments passed for that key,
\* and a call leaves the rows of the other keys as they were.
C27_CountersAreSums ==
    /\ [](\A key \in StatKeys : \A c \in Counters :
            Coalesce(user_stats, key, c) = PassedSum(Len(statcalls), key, c))
    /\ [][\A key \in StatKeys :
            key # statcalls'[Len(statcalls')].key => user_stats'[key] = user_stats[key]]_vars

\* two calls for one key and one for another in between
C27_Witness ==
    /\ Len(statcalls) = 3
    /\ statcalls[1].key = <<"g1", "u1">>
    /\ statcalls[2].key = <<"g1", "u2">>
    /\ statcalls[3].key = <<"g1", "u1">>
    /\ user_stats[<<"g1", "u1">>].counters["images"] = 3
    /\ user_stats[<<"g1", "u1">>].counters["total_time"] = 5
    /\ user_stats[<<"g1", "u2">>].counters["depth_maps"] = 1

(***************************************************************************)
(* Claims about what reaches the backend                                   *)
(***************************************************************************)
\* C29: an accepted request of a queueing feature has its job graph submitted
\* exactly once over the life of the request and of its queue entry: POST
\* /prompt is never issued a second time for it.
C29_SubmittedOnce ==
    \A r \in Requests : entry[r] => posts[r].direct + posts[r].gate <= 1

\* C30: a job graph submitted for a request carries that request's own values,
\* also when another request using the same template is built between the
\* filling of the graph and its serialisation.
C30_OwnValuesSubmitted ==
    \A h \in Builds :
        bpc[h] = "submitted" => \A n \in Nodes : bsent[h][n] = h

(***************************************************************************)
(* Claims about the dispatcher loop under failures and reconnects           *)
(***************************************************************************)
\* C31: when the backend never reports the outputs of one entry's job, the
\* loop still goes on to the entries behind it: every enqueued entry is
\* eventually dequeued and started.
C31_LaterEntriesStart ==
    \A r \in Requests :
        (r \in {arrivals[i] : i \in 1..Len(arrivals)})
            ~> (r \in {started[i] : i \in 1..Len(started)})

\* C32: an entry that raises does not end the dispatcher: after the decrement
\* the loop is still running (asleep, at its guard, waiting in get() or
\* executing a later entry), whatever the entries it executed did.
C32_LoopKeepsRunning ==
    \A d \in Loops :
        dpc[d] # "off" => dpc[d] \in {"check", "get", "submit", "poll", "sleep"}

\* C33: however many on_ready events started a loop, and however the loops'
\* guard checks, blocked get() calls and increments interleave, running_tasks
\* never exceeds max_concurrent_tasks.
C33_CeilingOverReconnects == loops >= 1 => running_tasks <= max_concurrent_tasks

(***************************************************************************)
(* Further claims about the template cache                                 *)
(***************************************************************************)
\* C34: load_workflow calls for one name read storage once in total, also when
\* the calls overlap in time and also when the file was found empty: no name
\* is ever read twice.
C34_ReadOnceInTotal == \A t \in Templates : reads[t] < 2

(***************************************************************************)
(* Claims about the evolution game                                         *)
(***************************************************************************)
\* C35: while no startgame command is in progress, an active game has at least
\* one image; and when the initial generation failed (absent result, timeout
\* or another exception) the game is not active afterwards.
C35_ActiveGameHasImage ==
    starting = 0 =>
        /\ game_active => evolution_steps # <<>>
        /\ gstart \in {"absent", "raised"} => ~game_active

\* C36: under any interleaving of evolve commands current_step stays within
\* max_steps and evolution_steps holds at most max_steps + 1 images.
C36_StepsBounded ==
    /\ current_step <= max_steps
    /\ Len(evolution_steps) <= max_steps + 1

(***************************************************************************)
(* Further claims about the builders                                       *)
(***************************************************************************)
\* C37: update_canvas replaces the stored canvas image exactly when it returns
\* images; when it returns (None, None) the canvas is the one it started from,
\* also with the stats cog loaded and a channel set.
C37_CanvasChangesWithResult ==
    (upc = "done" /\ ufeature = "canvas") =>
        (canvas_image # "canvas" <=> uresult = "images")

\* C38: whatever the batch parameter (zero, negative and non-numeric texts
\* included), the batch_size written into the text-to-image graph is at
\* least 1.
C38_BatchAtLeastOne ==
    (jpc = "built" /\ bcall.feature = "txt2img" /\ bgraph.raised = "none") =>
        bgraph.batch_size >= 1

\* C39: every value a generation request stores in the user-preference
\* mapping, and in the persisted document, is a key of the available models.
C39_StoredModelsAreKnown ==
    jpc = "built" =>
        \A u \in Users :
            /\ user_model_preferences[u] # bcall.preferences[u]
                   => user_model_preferences[u] \in ModelKeys
            /\ (preferences_file.kind = "document"
                   /\ preferences_file.entries[u] # bcall.file.entries[u])
                   => preferences_file.entries[u] \in ModelKeys

(***************************************************************************)
(* Claims about the approval protocol                                      *)
(***************************************************************************)
\* C40: once the requester has reacted with discard, no message with images
\* of that generation is in the channel, neither one sent before the reaction
\* nor one sent after it, also when the images were split over several
\* messages.
C40_DiscardedStaysGone ==
    \A g \in Generations : reacted[g] = "discard" => posted[g] = {}

====
